---- MODULE Spec2Model ----
(***************************************************************************)
(* Model of the Simple Configuration Server: the access-control engine of  *)
(* scs/auth.py (whitelists, rate limiter, check_auth), the wildcard path   *)
(* patterns of scs/tools.py, the environment merge and the view function   *)
(* of scs/configs.py and the YAML loading and secrets of scs/yaml.py.      *)
(***************************************************************************)
EXTENDS Integers, Sequences, FiniteSets, TLC

VARIABLES
    options,                \* auth options given to init(): networks, users, limit
    startup,                \* "pending", "ok", "not_private" or "not_covered"
    global_whitelist,       \* app.scs._auth_global_whitelist
    auth_mapping,           \* app.scs._auth_mapping: token -> user
    now,                    \* index of the current instant in Instants
    current_window,         \* _RateLimiter._current_window
    invalid_auth_attempts,  \* _RateLimiter._invalid_auth_attempts: ip -> count
    last,                   \* the request handled last and its response
    audit_events,           \* g.audit_events of the request handled last
    attempts,               \* per ip: the requests seen in the limiter's window
    limited_at,             \* per ip: the instant of its last 429 response, or 0
    reqCount,               \* number of requests handled so far
    wildcard_path,          \* argument of build_pattern_from_path
    request_path,           \* a request path matched against the pattern
    matched,                \* "pending", or the result of pattern.match
    env_files,              \* override files on disk: relative path -> data
    env_target,             \* the relative path of the requested endpoint
    env_status,             \* "pending", "ok" or "env-format-error"
    combined_env,           \* the result of _load_environment
    secret_input,           \* the data first handed to serialize_secrets
    secret_prev,            \* the data as it was before the last call
    secret_data,            \* the data, serialized in place
    secret_ids,             \* the set returned by the last call
    secret_calls,           \* number of serialize_secrets calls made
    view_templates,         \* endpoint files on disk: path -> how they render
    view_faults,            \* override files that yaml.load_file fails on
    view_last,              \* the request view_config_file got, its response
    audit_log,              \* the records written to the audit log so far
    view_count,             \* number of requests the server has handled
    file_opts,              \* environments.cache and templates.validate_on_startup
    file_disk,              \* the override files on disk: path -> content
    filecache,              \* yaml.filecache._cache: path -> parsed data
    env_cache,              \* app.scs.env_cache._cache: path -> parsed data
    file_first,             \* per path: the first data this process loaded, if any
    file_generated,         \* per path: the data returned when secrets were generated
    file_last,              \* the last operation on the files and what it used
    file_phase,             \* "init", "serving" or "crashed"
    ref_data,               \* the data of the file a reference names
    ref_attr,               \* the part of the reference after the '#'
    ref_result,             \* "pending", or what _get_data returned or raised
    rl_window,              \* _RateLimiter._current_window, shared by the threads
    rl_attempts,            \* _RateLimiter._invalid_auth_attempts: the dict it refers to
    rl_heap,                \* the dicts created so far: reference -> ip -> count
    rl_pc,                  \* per thread: its position in register_attempt
    rl_local,               \* per thread: its local variables
    rl_done,                \* per thread: the register_attempt calls it completed
    ld_pc,                  \* per thread: its position in load_file
    ld_local,               \* per thread: what its loader parsed
    ld_result,              \* per thread: what load_file returned or raised
    obj_heap,               \* the objects of the interpreter, by identity
    obj_cache,              \* per cache and path: the object it stores
    obj_held,               \* the objects callers hold, and where from
    obj_added,              \* per cache and path: the data as it was added
    obj_mutated,            \* the objects a caller has changed in place
    defaults_heap,          \* the objects of ENVIRONMENT_DEFAULTS
    frame_served            \* the requests served: input, outcome, environment

vars == <<options, startup, global_whitelist, auth_mapping, now,
          current_window, invalid_auth_attempts, last, audit_events,
          attempts, limited_at, reqCount, wildcard_path, request_path, matched,
          env_files, env_target, env_status, combined_env,
          secret_input, secret_prev, secret_data, secret_ids, secret_calls,
          view_templates, view_faults, view_last, audit_log, view_count,
          file_opts, file_disk, filecache, env_cache, file_first,
          file_generated, file_last, file_phase,
          ref_data, ref_attr, ref_result,
          rl_window, rl_attempts, rl_heap, rl_pc, rl_local, rl_done,
          ld_pc, ld_local, ld_result,
          obj_heap, obj_cache, obj_held, obj_added, obj_mutated,
          defaults_heap, frame_served>>

authVars == <<options, startup, global_whitelist, auth_mapping>>
limiterVars == <<now, current_window, invalid_auth_attempts>>
requestVars == <<last, audit_events, attempts, limited_at, reqCount>>
patternVars == <<wildcard_path, request_path, matched>>
envVars == <<env_files, env_target, env_status, combined_env>>
secretVars == <<secret_input, secret_prev, secret_data, secret_ids,
                secret_calls>>
viewVars == <<view_templates, view_faults, view_last, audit_log, view_count>>
fileVars == <<file_opts, file_disk, filecache, env_cache, file_first,
              file_generated, file_last, file_phase>>
refVars == <<ref_data, ref_attr, ref_result>>
limVars == <<rl_window, rl_attempts, rl_heap, rl_pc, rl_local, rl_done>>
loadVars == <<ld_pc, ld_local, ld_result>>
heapVars == <<obj_heap, obj_cache, obj_held, obj_added, obj_mutated>>
frameVars == <<defaults_heap, frame_served>>
concVars == <<limVars, loadVars, heapVars, frameVars>>
ioVars == <<fileVars, refVars, concVars>>
extVars == <<secretVars, viewVars, ioVars>>

None == "None"

EmptyDict == [x \in {} |-> 0]

DictGet(d, k, default) == IF k \in DOMAIN d THEN d[k] ELSE default

(***************************************************************************)
(* Networks.  An address family has AddrBits-bit addresses; a network is   *)
(* a version, a network address with no host bit set and a prefix length,  *)
(* as ipaddress.ip_network() returns it.                                   *)
(***************************************************************************)
AddrBits == 4

RECURSIVE Pow2(_)
Pow2(n) == IF n = 0 THEN 1 ELSE 2 * Pow2(n - 1)

Net(v, a, p) == [version |-> v, addr |-> a, prefix |-> p]

network_address(n) == n.addr

broadcast_address(n) == n.addr + Pow2(AddrBits - n.prefix) - 1

\* ipaddress.ip_network() of a single address: the host network
ip_network(ip) == Net(ip.version, ip.addr, AddrBits)

\* The private ranges of each family (ipaddress _private_networks)
PrivateNetworks ==
    {Net(4, 8, 2), Net(4, 14, 3), Net(6, 0, 2)}

SubnetOfOverlap(a, b) ==
    /\ a.version = b.version
    /\ network_address(b) <= broadcast_address(a)
    /\ broadcast_address(b) >= network_address(a)

\* a.subnet_of(b)
SubnetOf(a, b) ==
    /\ a.version = b.version
    /\ network_address(b) <= network_address(a)
    /\ broadcast_address(b) >= broadcast_address(a)

\* address in network
AddressIn(a, n) == network_address(n) <= a /\ a <= broadcast_address(n)

\* ip_network.is_private
IsPrivate(n) ==
    \E priv_network \in PrivateNetworks :
        /\ priv_network.version = n.version
        /\ AddressIn(network_address(n), priv_network)
        /\ AddressIn(broadcast_address(n), priv_network)

NoNetworks == [error |-> FALSE, ipv4_networks |-> {}, ipv6_networks |-> {}]

\* NetworkWhitelist.__init__
NetworkWhitelist(networks, private_only) ==
    IF private_only /\ \E n \in networks : ~IsPrivate(n)
    THEN [error |-> TRUE, ipv4_networks |-> {}, ipv6_networks |-> {}]
    ELSE [error |-> FALSE,
          ipv4_networks |-> {n \in networks : n.version = 4},
          ipv6_networks |-> {n \in networks : n.version # 4}]

\* NetworkWhitelist.contains
Contains(whitelist, ip) ==
    LET net == ip_network(ip)
        list == IF net.version = 4 THEN whitelist.ipv4_networks
                ELSE whitelist.ipv6_networks
    IN  \E whitelisted_network \in list : SubnetOf(net, whitelisted_network)

\* NetworkWhitelist.issubset
IsSubset(self, other) ==
    /\ \A network \in self.ipv4_networks :
          \E other_network \in other.ipv4_networks :
              SubnetOf(network, other_network)
    /\ \A network \in self.ipv6_networks :
          \E other_network \in other.ipv6_networks :
              SubnetOf(network, other_network)

(***************************************************************************)
(* Wildcard path patterns (scs/tools.py).  A string is a sequence of       *)
(* one-character strings.                                                  *)
(***************************************************************************)
BSL == "\\"
NL == "\n"

\* the characters re.escape() prefixes with a backslash
SpecialChars ==
    {"(", ")", "[", "]", "{", "}", "?", "*", "+", "-", "|", "^", "$",
     BSL, ".", "&", "~", "#", " ", NL}

\* re.escape
RECURSIVE ReEscape(_)
ReEscape(s) ==
    IF s = <<>> THEN <<>>
    ELSE (IF Head(s) \in SpecialChars THEN <<BSL, Head(s)>> ELSE <<Head(s)>>)
         \o ReEscape(Tail(s))

\* _wildcard_pattern.sub('(.*)', r): each backslash-star that no backslash
\* precedes becomes (.*)
RECURSIVE WildcardSub(_, _)
WildcardSub(r, i) ==
    IF i > Len(r) THEN <<>>
    ELSE IF /\ r[i] = BSL
            /\ i + 1 <= Len(r)
            /\ r[i + 1] = "*"
            /\ (i = 1 \/ r[i - 1] # BSL)
         THEN <<"(", ".", "*", ")">> \o WildcardSub(r, i + 2)
         ELSE <<r[i]>> \o WildcardSub(r, i + 1)

\* r.replace(r'\\\*', r'\*')
RECURSIVE ReplaceEscapedStar(_, _)
ReplaceEscapedStar(r, i) ==
    IF i > Len(r) THEN <<>>
    ELSE IF /\ i + 3 <= Len(r)
            /\ r[i] = BSL /\ r[i + 1] = BSL /\ r[i + 2] = BSL
            /\ r[i + 3] = "*"
         THEN <<BSL, "*">> \o ReplaceEscapedStar(r, i + 4)
         ELSE <<r[i]>> \o ReplaceEscapedStar(r, i + 1)

\* re.compile of the body between ^ and $: a backslash pair is a literal,
\* an opening parenthesis starts the group (.*), any other character is
\* a literal
RECURSIVE ReCompile(_, _)
ReCompile(r, i) ==
    IF i > Len(r) THEN <<>>
    ELSE IF r[i] = BSL
         THEN <<[kind |-> "lit", ch |-> r[i + 1]]>> \o ReCompile(r, i + 2)
         ELSE IF r[i] = "("
              THEN <<[kind |-> "any", ch |-> "."]>> \o ReCompile(r, i + 4)
              ELSE <<[kind |-> "lit", ch |-> r[i]]>> \o ReCompile(r, i + 1)

\* build_pattern_from_path
build_pattern_from_path(wp) ==
    LET regex_escaped == ReEscape(wp)
        wildcard_converted == WildcardSub(regex_escaped, 1)
        non_wildcard_normalized == ReplaceEscapedStar(wildcard_converted, 1)
    IN  ReCompile(non_wildcard_normalized, 1)

\* re.IGNORECASE
Lower(c) == IF c = "A" THEN "a" ELSE IF c = "B" THEN "b" ELSE c

\* pattern.match(s) for ^...$ : a dot matches any character but a newline,
\* $ matches at the end and before a newline that ends the string
RECURSIVE MatchFrom(_, _, _, _)
MatchFrom(toks, i, s, j) ==
    IF i > Len(toks)
    THEN \/ j = Len(s) + 1
         \/ j = Len(s) /\ s[j] = NL
    ELSE IF toks[i].kind = "any"
         THEN \E k \in j..(Len(s) + 1) :
                  /\ \A m \in j..(k - 1) : s[m] # NL
                  /\ MatchFrom(toks, i + 1, s, k)
         ELSE /\ j <= Len(s)
              /\ Lower(s[j]) = Lower(toks[i].ch)
              /\ MatchFrom(toks, i + 1, s, j + 1)

PatternMatch(pattern, s) == MatchFrom(pattern, 1, s, 1)

(***************************************************************************)
(* Startup of the auth module (scs/auth.py, init).                         *)
(***************************************************************************)
MaxNets == 2

\* the network ranges a configuration may name
CandidateNetworks ==
    {Net(4, 8, 1), Net(4, 8, 2), Net(4, 10, 3), Net(4, 12, 2),
     Net(6, 0, 2), Net(6, 8, 2)}

NetworkLists == {l \in SUBSET CandidateNetworks : Cardinality(l) <= MaxNets}

User(id, token, networks, paths) ==
    [id |-> id, token |-> token,
     has_access |-> [from_networks |-> networks, to_paths |-> paths]]

\* the users after init's loop has replaced their whitelist and paths
ParsedUser(user) ==
    [id |-> user.id,
     has_access |->
        [from_networks |->
            NetworkWhitelist(user.has_access.from_networks, FALSE),
         to_paths |->
            [i \in DOMAIN user.has_access.to_paths |->
                build_pattern_from_path(user.has_access.to_paths[i])]]]

\* _auth_mapping[user.pop('token')] = user, for the users in file order
BuildAuthMapping(scs_users) ==
    [token \in {scs_users[i].token : i \in DOMAIN scs_users} |->
        LET i == CHOOSE i \in DOMAIN scs_users :
                    /\ scs_users[i].token = token
                    /\ \A j \in DOMAIN scs_users :
                          scs_users[j].token = token => j <= i
        IN  ParsedUser(scs_users[i])]

AuthInitNoSubsetCheck(opts) ==
    LET wl == NetworkWhitelist(opts.networks.whitelist,
                               opts.networks.private_only)
    IN  IF wl.error
        THEN [status |-> "not_private", global_whitelist |-> NoNetworks,
              auth_mapping |-> EmptyDict]
        ELSE [status |-> "ok", global_whitelist |-> wl,
              auth_mapping |-> BuildAuthMapping(opts.users)]

\* init: the global whitelist, then the loop over the users
AuthInit(opts) ==
    LET wl == NetworkWhitelist(opts.networks.whitelist,
                               opts.networks.private_only)
    IN  IF wl.error
        THEN [status |-> "not_private", global_whitelist |-> NoNetworks,
              auth_mapping |-> EmptyDict]
        ELSE IF \E i \in DOMAIN opts.users :
                    ~IsSubset(NetworkWhitelist(
                                  opts.users[i].has_access.from_networks,
                                  FALSE), wl)
             THEN [status |-> "not_covered", global_whitelist |-> NoNetworks,
                   auth_mapping |-> EmptyDict]
             ELSE [status |-> "ok", global_whitelist |-> wl,
                   auth_mapping |-> BuildAuthMapping(opts.users)]

(***************************************************************************)
(* The rate limiter (scs/auth.py, _RateLimiter) and the wall clock.        *)
(***************************************************************************)
At(y, mo, d, h, mi) ==
    [year |-> y, month |-> mo, day |-> d, hour |-> h, minute |-> mi]

\* the instants the clock passes through, in increasing order
Instants ==
    << At(2022, 1, 11, 0, 5),  At(2022, 1, 11, 0, 10),
       At(2022, 1, 11, 0, 20), At(2022, 11, 1, 0, 3) >>

\* str() of a non-negative integer, as its decimal digits
RECURSIVE Digits(_)
Digits(n) == IF n < 10 THEN <<n>> ELSE Digits(n \div 10) \o <<n % 10>>

\* _RateLimiter._get_window_id
get_window_id(t) ==
    LET minute_rounded == t.minute - (t.minute % 15)
    IN  Digits(t.year) \o Digits(t.month) \o Digits(t.day)
            \o Digits(t.hour) \o Digits(minute_rounded)

WindowReadKeepCounts(cw, counts, t) ==
    [current_window |-> get_window_id(t), counts |-> counts]

\* _RateLimiter.invalid_auth_attempts (property): the limiter after the read
WindowRead(cw, counts, t) ==
    LET window_id == get_window_id(t)
    IN  IF cw # window_id
        THEN [current_window |-> window_id, counts |-> EmptyDict]
        ELSE [current_window |-> cw, counts |-> counts]

RegisterAttemptAllIps(counts, ip) ==
    [x \in DOMAIN counts \cup {ip} |-> DictGet(counts, x, 0) + 1]

\* _RateLimiter.register_attempt, on the counts the property returned
RegisterAttempt(counts, ip) ==
    LET inserted == IF ip \notin DOMAIN counts
                    THEN [x \in DOMAIN counts \cup {ip} |->
                              IF x = ip THEN 0 ELSE counts[x]]
                    ELSE counts
    IN  [inserted EXCEPT ![ip] = @ + 1]

IsLimitedAbove(counts, ip, max_auth_fails) ==
    DictGet(counts, ip, 0) > max_auth_fails

\* _RateLimiter.is_limited, on the counts the property returned
IsLimited(counts, ip, max_auth_fails) ==
    DictGet(counts, ip, 0) >= max_auth_fails

(***************************************************************************)
(* Request handling: check_auth (scs/auth.py) with the audit events of     *)
(* scs/logging.py and the error response of scs/errors.py.                 *)
(***************************************************************************)
MaxRequests == 3
MaxAuthFails == 1

Ip(v, a) == [version |-> v, addr |-> a]

Str1(a) == <<a>>
Str2(a, b) == <<a, b>>
Str3(a, b, c) == <<a, b, c>>

\* the configuration the request-handling model starts from
ServerOptions ==
    [networks |-> [private_only |-> FALSE,
                   whitelist |-> {Net(4, 8, 1), Net(6, 0, 2)}],
     max_auth_fails_per_15_min |-> MaxAuthFails,
     users |-> << User("u1", Str1("T1"), {Net(4, 8, 2)},
                       <<Str3("/", "a", "*")>>),
                  User("u2", Str1("T2"), {Net(4, 8, 1)},
                       <<Str2("/", "b")>>) >>]

ClientIps == {Ip(4, 9), Ip(4, 12), Ip(6, 9)}

\* request.headers: without an Authorization header, or with its value,
\* the prefix 'Bearer ' being one element of the value
NoHeader == [present |-> FALSE, value |-> <<>>]
Header(v) == [present |-> TRUE, value |-> v]

AuthHeaders ==
    {NoHeader, Header(Str2("Bearer ", "T1")), Header(Str2("Bearer ", "bad")),
     Header(Str1("T2"))}

RequestPaths == {Str3("/", "a", "b"), Str2("/", "B")}

\* auth_header.removeprefix('Bearer ')
RemovePrefix(auth_header) ==
    IF auth_header # <<>> /\ Head(auth_header) = "Bearer "
    THEN Tail(auth_header)
    ELSE auth_header

\* _add_audit_event: the event appended to g.audit_events
AuditEvent(event_type, ip, path, user_id) ==
    IF user_id # None
    THEN [type |-> event_type,
          details |-> [ip |-> ip, path |-> path, user |-> user_id]]
    ELSE [type |-> event_type, details |-> [ip |-> ip, path |-> path]]

\* json_error_response: the id of the JSON error body for abort(code, id)
ErrorId(code, description_id) ==
    IF description_id # None THEN description_id
    ELSE IF code = 401 THEN "unauthenticated"
    ELSE IF code = 403 THEN "unauthorized"
    ELSE "internal-server-error"

Response(outcome, code, description_id, events, limiter) ==
    [outcome |-> outcome, status |-> code,
     error_id |-> IF code = 0 THEN None ELSE ErrorId(code, description_id),
     events |-> events,
     current_window |-> limiter.current_window,
     counts |-> limiter.counts]

\* the checks after the token lookup has found the user
CheckUser(user, ip, path, limiter) ==
    IF ~Contains(user.has_access.from_networks, ip)
    THEN Response("UnauthorizedIP", 403, "unauthorized-ip",
                  <<AuditEvent("unauthorized-ip", ip, path, user.id)>>,
                  limiter)
    ELSE IF ~\E i \in DOMAIN user.has_access.to_paths :
                PatternMatch(user.has_access.to_paths[i], path)
         THEN Response("UnauthorizedPath", 403, "unauthorized-path",
                       <<AuditEvent("unauthorized-path", ip, path, user.id)>>,
                       limiter)
         ELSE Response("Allowed", 0, None, <<>>, limiter)

\* the token lookup and what follows it
CheckToken(ip, headers, path, limiter) ==
    IF \/ ~headers.present
       \/ RemovePrefix(headers.value) \notin DOMAIN auth_mapping
    THEN LET again == WindowRead(limiter.current_window, limiter.counts,
                                 Instants[now])
         IN  Response("Unauthenticated", 401, None,
                      <<AuditEvent("unauthenticated", ip, path, None)>>,
                      [current_window |-> again.current_window,
                       counts |-> RegisterAttempt(again.counts, ip)])
    ELSE CheckUser(auth_mapping[RemovePrefix(headers.value)], ip, path,
                   limiter)

check_auth_token_first(ip, headers, path) ==
    LET limiter == [current_window |-> current_window,
                    counts |-> invalid_auth_attempts]
    IN  IF ~Contains(global_whitelist, ip)
        THEN Response("UnauthorizedIP", 403, "unauthorized-ip", <<>>, limiter)
        ELSE LET read == WindowRead(current_window, invalid_auth_attempts,
                                    Instants[now])
                 byToken == CheckToken(ip, headers, path, read)
             IN  IF byToken.outcome = "Unauthenticated"
                       /\ IsLimited(read.counts, ip,
                                    options.max_auth_fails_per_15_min)
                 THEN Response("RateLimited", 429, "auth-rate-limited",
                               <<AuditEvent("rate-limited", ip, path, None)>>,
                               read)
                 ELSE byToken

check_auth_no_global_check(ip, headers, path) ==
    LET read == WindowRead(current_window, invalid_auth_attempts,
                           Instants[now])
    IN  IF IsLimited(read.counts, ip, options.max_auth_fails_per_15_min)
        THEN Response("RateLimited", 429, "auth-rate-limited",
                      <<AuditEvent("rate-limited", ip, path, None)>>, read)
        ELSE CheckToken(ip, headers, path, read)

\* check_auth: the response of the request and the limiter after it
check_auth(ip, headers, path) ==
    LET limiter == [current_window |-> current_window,
                    counts |-> invalid_auth_attempts]
    IN  IF ~Contains(global_whitelist, ip)
        THEN Response("UnauthorizedIP", 403, "unauthorized-ip", <<>>, limiter)
        ELSE LET read == WindowRead(current_window, invalid_auth_attempts,
                                    Instants[now])
             IN  IF IsLimited(read.counts, ip,
                              options.max_auth_fails_per_15_min)
                 THEN Response("RateLimited", 429, "auth-rate-limited",
                               <<AuditEvent("rate-limited", ip, path, None)>>,
                               read)
                 ELSE CheckToken(ip, headers, path, read)

\* whether the header names a provisioned token
TokenKnown(headers) ==
    headers.present /\ RemovePrefix(headers.value) \in DOMAIN auth_mapping

\* the record of one request in the limiter's current window
Attempt(headers, outcome) ==
    [known |-> TokenKnown(headers), outcome |-> outcome]

NoAttempts == [ip \in ClientIps |-> <<>>]

\* One request, handled from the first before-request hook to the response
CheckAuth ==
    /\ startup = "ok"
    /\ reqCount < MaxRequests
    /\ \E ip \in ClientIps, headers \in AuthHeaders, path \in RequestPaths :
          LET r == check_auth(ip, headers, path)
              base == IF r.current_window # current_window
                      THEN NoAttempts ELSE attempts
          IN  /\ current_window' = r.current_window
              /\ invalid_auth_attempts' = r.counts
              /\ audit_events' = r.events
              /\ last' = [ip |-> ip, headers |-> headers,
                          path |-> path, at |-> now,
                          outcome |-> r.outcome, status |-> r.status,
                          error_id |-> r.error_id]
              /\ attempts' =
                    IF Contains(global_whitelist, ip)
                    THEN [base EXCEPT
                            ![ip] = Append(@, Attempt(headers, r.outcome))]
                    ELSE base
              /\ limited_at' =
                    IF r.outcome = "RateLimited"
                    THEN [limited_at EXCEPT ![ip] = now]
                    ELSE limited_at
    /\ reqCount' = reqCount + 1
    /\ UNCHANGED <<authVars, now, patternVars, envVars, extVars>>

\* The wall clock reaches the next instant
Tick ==
    /\ startup = "ok"
    /\ now < Len(Instants)
    /\ now' = now + 1
    /\ UNCHANGED <<authVars, current_window, invalid_auth_attempts,
                   requestVars, patternVars, envVars, extVars>>

NoRequest ==
    [ip |-> Ip(0, 0), headers |-> NoHeader, path |-> <<>>, at |-> 0,
     outcome |-> None, status |-> 0, error_id |-> None]

PatternIdle ==
    /\ wildcard_path = <<>>
    /\ request_path = <<>>
    /\ matched = "pending"

EnvIdle ==
    /\ env_files = EmptyDict
    /\ env_target = <<>>
    /\ env_status = "pending"
    /\ combined_env = EmptyDict

RequestIdle ==
    /\ now = 1
    /\ current_window = get_window_id(Instants[1])
    /\ invalid_auth_attempts = EmptyDict
    /\ last = NoRequest
    /\ audit_events = <<>>
    /\ attempts = NoAttempts
    /\ limited_at = [ip \in ClientIps |-> 0]
    /\ reqCount = 0

SecretsIdle ==
    /\ secret_input = <<>>
    /\ secret_prev = <<>>
    /\ secret_data = <<>>
    /\ secret_ids = {}
    /\ secret_calls = 0

\* no request has reached the view function
NoViewRequest ==
    [handled |-> FALSE, ip |-> Ip(0, 0), headers |-> NoHeader, path |-> <<>>,
     method |-> None, body |-> [json |-> FALSE, items |-> EmptyDict],
     auth |-> None, status |-> 0, error_id |-> None, exception |-> None,
     env_resolved |-> FALSE, serialized |-> FALSE, secret_ids |-> {},
     rendered |-> FALSE, content |-> <<>>, events |-> <<>>]

ViewIdle ==
    /\ view_templates = EmptyDict
    /\ view_faults = EmptyDict
    /\ view_last = NoViewRequest
    /\ audit_log = <<>>
    /\ view_count = 0

\* no override file is being served through the caches
FilesIdle ==
    /\ file_opts = EmptyDict
    /\ file_disk = EmptyDict
    /\ filecache = EmptyDict
    /\ env_cache = EmptyDict
    /\ file_first = EmptyDict
    /\ file_generated = EmptyDict
    /\ file_last = EmptyDict
    /\ file_phase = "idle"

\* no reference is being resolved
RefIdle ==
    /\ ref_data = <<>>
    /\ ref_attr = <<>>
    /\ ref_result = <<>>

\* no thread is in the rate limiter
LimiterIdle ==
    /\ rl_window = <<>>
    /\ rl_attempts = 0
    /\ rl_heap = <<>>
    /\ rl_pc = EmptyDict
    /\ rl_local = EmptyDict
    /\ rl_done = EmptyDict

\* no thread is in load_file
LoadIdle ==
    /\ ld_pc = EmptyDict
    /\ ld_local = EmptyDict
    /\ ld_result = EmptyDict

\* no object is followed by identity
HeapIdle ==
    /\ obj_heap = <<>>
    /\ obj_cache = EmptyDict
    /\ obj_held = EmptyDict
    /\ obj_added = EmptyDict
    /\ obj_mutated = {}

\* the defaults are not followed by identity
FrameIdle ==
    /\ defaults_heap = <<>>
    /\ frame_served = <<>>

ConcIdle == LimiterIdle /\ LoadIdle /\ HeapIdle /\ FrameIdle

IoIdle == FilesIdle /\ RefIdle /\ ConcIdle

ExtIdle ==
    /\ SecretsIdle
    /\ ViewIdle
    /\ IoIdle

\* The server after create_app() with ServerOptions
Init ==
    /\ options = ServerOptions
    /\ startup = AuthInit(ServerOptions).status
    /\ global_whitelist = AuthInit(ServerOptions).global_whitelist
    /\ auth_mapping = AuthInit(ServerOptions).auth_mapping
    /\ RequestIdle
    /\ PatternIdle
    /\ EnvIdle
    /\ ExtIdle

Next == CheckAuth \/ Tick

Spec == Init /\ [][Next]_vars

(***************************************************************************)
(* Properties of request handling.                                         *)
(***************************************************************************)
\* the step handles one request
Handled == reqCount' = reqCount + 1

\* the address lies in one of the configured global ranges of its family
InGlobalRanges(ip) ==
    \E n \in options.networks.whitelist :
        n.version = ip.version /\ AddressIn(ip.addr, n)

\* the failed attempts of the ip in the window of the current instant
CountInWindow(ip) ==
    IF get_window_id(Instants[now]) # current_window THEN 0
    ELSE DictGet(invalid_auth_attempts, ip, 0)

UserOf(headers) == auth_mapping[RemovePrefix(headers.value)]

InUserRanges(headers, ip) ==
    \E n \in UserOf(headers).has_access.from_networks.ipv4_networks
             \cup UserOf(headers).has_access.from_networks.ipv6_networks :
        n.version = ip.version /\ AddressIn(ip.addr, n)

PathAllowed(headers, path) ==
    \E i \in DOMAIN UserOf(headers).has_access.to_paths :
        PatternMatch(UserOf(headers).has_access.to_paths[i], path)

\* the outcome of the first check that fails, in the order of section 4.4
FirstFailingCheck(ip, headers, path) ==
    IF ~InGlobalRanges(ip) THEN "UnauthorizedIP"
    ELSE IF CountInWindow(ip) >= options.max_auth_fails_per_15_min
         THEN "RateLimited"
    ELSE IF ~TokenKnown(headers) THEN "Unauthenticated"
    ELSE IF ~InUserRanges(headers, ip) THEN "UnauthorizedIP"
    ELSE IF ~PathAllowed(headers, path) THEN "UnauthorizedPath"
    ELSE "Allowed"

ValidCredentials(req) ==
    /\ TokenKnown(req.headers)
    /\ InUserRanges(req.headers, req.ip)
    /\ PathAllowed(req.headers, req.path)

\* C1: every request gets the outcome of the first failing check in the
\* order global whitelist, rate limit, token, user whitelist, user paths,
\* and is Allowed only when all five pass; a valid token from an ip whose
\* count has reached the maximum is RateLimited.
C1_CheckOrder ==
    [][Handled =>
        /\ last'.outcome = FirstFailingCheck(last'.ip, last'.headers,
                                             last'.path)
        /\ (last'.outcome = "Allowed" =>
              /\ InGlobalRanges(last'.ip)
              /\ CountInWindow(last'.ip) < options.max_auth_fails_per_15_min
              /\ ValidCredentials(last'))
        /\ (/\ InGlobalRanges(last'.ip)
            /\ CountInWindow(last'.ip) >= options.max_auth_fails_per_15_min
            => last'.outcome = "RateLimited")]_vars

C1_Witness ==
    /\ last.outcome = "RateLimited"
    /\ ValidCredentials(last)

\* C2: a request with a valid token from an ip outside the global
\* whitelist is answered with status 401.
C2_OutsideGlobalGets401 ==
    (last.at # 0 /\ TokenKnown(last.headers) /\ ~InGlobalRanges(last.ip))
        => last.status = 401

\* C3: a request from an ip outside every global range is UnauthorizedIP
\* whatever its token, path and the limiter state, adds no audit event, and
\* the limiter holds no count for an ip outside the global whitelist.
C3_OutsideGlobalRejectedSilently ==
    /\ (last.at # 0 /\ ~InGlobalRanges(last.ip)) =>
          /\ last.outcome = "UnauthorizedIP"
          /\ audit_events = <<>>
    /\ \A ip \in DOMAIN invalid_auth_attempts : InGlobalRanges(ip)

C3_Witness ==
    /\ last.at # 0
    /\ ~InGlobalRanges(last.ip)
    /\ ~TokenKnown(last.headers)
    /\ last.outcome = "UnauthorizedIP"
    /\ \E ip \in DOMAIN invalid_auth_attempts :
          invalid_auth_attempts[ip] >= options.max_auth_fails_per_15_min

Min(a, b) == IF a <= b THEN a ELSE b

NextBucket(t1, t2) ==
    /\ t1.year = t2.year /\ t1.month = t2.month /\ t1.day = t2.day
    /\ \/ /\ t1.hour = t2.hour
          /\ t2.minute - (t2.minute % 15) = t1.minute - (t1.minute % 15) + 15
       \/ /\ t2.hour = t1.hour + 1
          /\ t1.minute >= 45 /\ t2.minute < 15

\* C5: when the window id differs from the one the limiter last saw, the
\* request reads zero for every ip: it is not RateLimited, it is Allowed
\* when its credentials are valid, and afterwards the limiter holds the new
\* window id and no count but the one this request registered.  An ip that
\* got 429 in a bucket is not rate limited on its first request in the
\* next bucket.
C5_WindowReset ==
    [][Handled /\ InGlobalRanges(last'.ip) =>
        /\ get_window_id(Instants[now]) # current_window =>
              /\ last'.outcome # "RateLimited"
              /\ ValidCredentials(last') => last'.outcome = "Allowed"
              /\ current_window' = get_window_id(Instants[now])
              /\ \A ip \in DOMAIN invalid_auth_attempts' :
                    /\ ip = last'.ip
                    /\ last'.outcome = "Unauthenticated"
                    /\ invalid_auth_attempts'[ip] = 1
        /\ (/\ limited_at[last'.ip] # 0
            /\ NextBucket(Instants[limited_at[last'.ip]], Instants[now])
            /\ \/ get_window_id(Instants[now]) # current_window
               \/ attempts[last'.ip] = <<>>) =>
              /\ last'.outcome # "RateLimited"
              /\ ValidCredentials(last') => last'.outcome = "Allowed"]_vars

C5_Witness ==
    /\ last.outcome = "Allowed"
    /\ limited_at[last.ip] # 0
    /\ NextBucket(Instants[limited_at[last.ip]], Instants[last.at])
    /\ Len(attempts[last.ip]) = 1
    /\ invalid_auth_attempts = EmptyDict

\* C6: within one window the counts change only when a request ends as
\* Unauthenticated, and then the count of the requesting ip grows by one
\* and no other count changes; every other outcome leaves all counts as
\* they were.
C6_OnlyUnauthenticatedCounts ==
    [][get_window_id(Instants[now]) = current_window =>
        IF Handled /\ last'.outcome = "Unauthenticated"
        THEN /\ DOMAIN invalid_auth_attempts' =
                    DOMAIN invalid_auth_attempts \cup {last'.ip}
             /\ \A ip \in DOMAIN invalid_auth_attempts' :
                    invalid_auth_attempts'[ip] =
                        DictGet(invalid_auth_attempts, ip, 0)
                            + (IF ip = last'.ip THEN 1 ELSE 0)
        ELSE invalid_auth_attempts' = invalid_auth_attempts]_vars

C6_Witness ==
    /\ last.outcome = "Unauthenticated"
    /\ get_window_id(Instants[last.at]) = current_window
    /\ \E ip \in DOMAIN invalid_auth_attempts :
          ip # last.ip /\ invalid_auth_attempts[ip] >= 1
    /\ invalid_auth_attempts[last.ip] >= 1

(***************************************************************************)
(* Startup: init() of the auth module on any configuration.                *)
(***************************************************************************)
StartupOptions ==
    {[networks |-> [private_only |-> po, whitelist |-> wl],
      max_auth_fails_per_15_min |-> MaxAuthFails,
      users |-> << User("u1", Str1("T1"), n1, <<Str3("/", "a", "*")>>),
                   User("u2", Str1("T2"), n2, <<Str2("/", "b")>>) >>] :
        po \in BOOLEAN, wl \in NetworkLists,
        n1 \in NetworkLists, n2 \in NetworkLists}

InitStartup ==
    /\ options \in StartupOptions
    /\ startup = "pending"
    /\ global_whitelist = NoNetworks
    /\ auth_mapping = EmptyDict
    /\ RequestIdle
    /\ PatternIdle
    /\ EnvIdle
    /\ ExtIdle

\* create_app() registers the auth blueprint: init() runs once
Startup ==
    /\ startup = "pending"
    /\ startup' = AuthInit(options).status
    /\ global_whitelist' = AuthInit(options).global_whitelist
    /\ auth_mapping' = AuthInit(options).auth_mapping
    /\ UNCHANGED <<options, limiterVars, requestVars, patternVars, envVars,
                   extVars>>

NextStartup == Startup

SpecStartup == InitStartup /\ [][NextStartup]_vars

\* the addresses of a range
Addresses(n) == {a \in 0..(Pow2(AddrBits) - 1) : AddressIn(a, n)}

\* the range is a subnet of a global range of its own family
CoveredByGlobal(u) ==
    \E g \in options.networks.whitelist :
        g.version = u.version /\ Addresses(u) \subseteq Addresses(g)

UserRanges ==
    UNION {options.users[i].has_access.from_networks :
               i \in DOMAIN options.users}

\* the range lies within one private range of its family
PrivateRange(n) ==
    \E p \in PrivateNetworks :
        p.version = n.version /\ Addresses(n) \subseteq Addresses(p)

GlobalRejected ==
    /\ options.networks.private_only
    /\ \E g \in options.networks.whitelist : ~PrivateRange(g)

\* C7 (as claimed): startup fails if and only if some user range is not a
\* subnet of any global range of the same family.
C7_FailsIffNotCovered ==
    startup # "pending" =>
        (startup # "ok" <=> \E u \in UserRanges : ~CoveredByGlobal(u))

\* C7 (amended): when private_only does not reject the global whitelist,
\* startup fails if and only if some user range is not a subnet of any
\* global range of the same family; overlap without containment is not
\* containment and ranges of different families are never compared.
C7_FailsIffNotCoveredUnlessRejected ==
    /\ (startup # "pending" /\ ~GlobalRejected) =>
          (startup # "ok" <=> \E u \in UserRanges : ~CoveredByGlobal(u))
    /\ (startup # "pending" /\ GlobalRejected) => startup = "not_private"

C7_Witness ==
    /\ startup = "not_covered"
    /\ \E u \in UserRanges, g \in options.networks.whitelist :
          /\ g.version = u.version
          /\ Addresses(u) \cap Addresses(g) # {}
          /\ ~CoveredByGlobal(u)
    /\ \E u \in UserRanges, g \in options.networks.whitelist :
          /\ g.version # u.version
          /\ Addresses(u) \subseteq Addresses(g)
          /\ ~CoveredByGlobal(u)

MaxPatternLen == 3
MaxPathLen == 3

PathAlphabet == {"a", "A", "*", BSL, NL}

StringsUpTo(n) == UNION {[1..k -> PathAlphabet] : k \in 0..n}

InitPattern ==
    /\ wildcard_path \in StringsUpTo(MaxPatternLen)
    /\ request_path \in StringsUpTo(MaxPathLen)
    /\ matched = "pending"
    /\ options = ServerOptions
    /\ startup = "pending"
    /\ global_whitelist = NoNetworks
    /\ auth_mapping = EmptyDict
    /\ RequestIdle
    /\ EnvIdle
    /\ ExtIdle

\* pattern.match(request.path) for the pattern built from wildcard_path
MatchPath ==
    /\ matched = "pending"
    /\ matched' =
          IF PatternMatch(build_pattern_from_path(wildcard_path), request_path)
          THEN "yes" ELSE "no"
    /\ UNCHANGED <<wildcard_path, request_path, authVars, limiterVars,
                   requestVars, envVars, extVars>>

NextPattern == MatchPath

SpecPattern == InitPattern /\ [][NextPattern]_vars

\* the wildcard path as the claim reads it: backslash-star is one literal
\* asterisk, any other star is a wildcard, every other character is itself
RECURSIVE WildcardTokens(_, _)
WildcardTokens(p, i) ==
    IF i > Len(p) THEN <<>>
    ELSE IF p[i] = BSL /\ i + 1 <= Len(p) /\ p[i + 1] = "*"
         THEN <<[kind |-> "lit", ch |-> "*"]>> \o WildcardTokens(p, i + 2)
         ELSE IF p[i] = "*"
              THEN <<[kind |-> "any", ch |-> "*"]>> \o WildcardTokens(p, i + 1)
              ELSE <<[kind |-> "lit", ch |-> p[i]]>> \o WildcardTokens(p, i + 1)

\* the whole of s from position j equals the tokens from position i, a
\* wildcard standing for any substring, letters compared without case
RECURSIVE WholeMatch(_, _, _, _)
WholeMatch(toks, i, s, j) ==
    IF i > Len(toks) THEN j = Len(s) + 1
    ELSE IF toks[i].kind = "any"
         THEN \E k \in j..(Len(s) + 1) : WholeMatch(toks, i + 1, s, k)
         ELSE /\ j <= Len(s)
              /\ Lower(s[j]) = Lower(toks[i].ch)
              /\ WholeMatch(toks, i + 1, s, j + 1)

\* C9: the regex built from a wildcard path matches a request path exactly
\* when the whole path, compared case-insensitively, equals the wildcard
\* path with each unescaped star standing for any substring and each
\* backslash-star for one asterisk.
C9_PatternMatchesWholePath ==
    matched # "pending" =>
        (matched = "yes" <=>
            WholeMatch(WildcardTokens(wildcard_path, 1), 1, request_path, 1))

(***************************************************************************)
(* The environment of an endpoint (scs/configs.py, _load_environment).     *)
(* A path string is a sequence of tokens, "/" being the separator; a value *)
(* is a map (dict) of items or anything else, held whole.                  *)
(***************************************************************************)
Scalar(v) == [isdict |-> FALSE, val |-> v, items |-> EmptyDict]
Dict(f) == [isdict |-> TRUE, val |-> "", items |-> f]

\* the defaults the env-file schema fills in for an empty document
ENVIRONMENT_DEFAULTS ==
    ( "request" :> ( "methods" :> Scalar("GET") @@ "schema" :> Dict(EmptyDict) )
   @@ "template" :> ( "enabled" :> Scalar("true")
                   @@ "context" :> Dict(EmptyDict)
                   @@ "rendering_options" :> Dict(EmptyDict) )
   @@ "response" :> ( "status" :> Scalar("200")
                   @@ "headers" :> Dict("Content-Type" :> "text/plain") ) )

\* _validate_env_file: the sections and keys of the schema, each with the
\* type the schema gives it
ValidEnvFile(data) ==
    \A root \in DOMAIN data :
        /\ root \in DOMAIN ENVIRONMENT_DEFAULTS
        /\ \A child \in DOMAIN data[root] :
              /\ child \in DOMAIN ENVIRONMENT_DEFAULTS[root]
              /\ data[root][child].isdict
                    = ENVIRONMENT_DEFAULTS[root][child].isdict

\* relative_path.split('/')
RECURSIVE SplitPath(_)
SplitPath(path) ==
    IF \A i \in DOMAIN path : path[i] # "/" THEN <<path>>
    ELSE LET i == CHOOSE i \in DOMAIN path :
                      path[i] = "/" /\ \A j \in 1..(i - 1) : path[j] # "/"
         IN  <<SubSeq(path, 1, i - 1)>>
                 \o SplitPath(SubSeq(path, i + 1, Len(path)))

\* Path(config_basepath, relative_path): the components of the path, a
\* run of separators counting as one
NormPath(path) == SelectSeq(SplitPath(path), LAMBDA part : part # <<>>)

\* the search order with the directories from deepest to shallowest
RECURSIVE PrefixEnvFilesDeepestFirst(_, _, _)
PrefixEnvFilesDeepestFirst(path_parts, i, envfile_basepath) ==
    IF i >= Len(path_parts) THEN <<>>
    ELSE LET basepath == envfile_basepath \o path_parts[i] \o <<"/">>
         IN  PrefixEnvFilesDeepestFirst(path_parts, i + 1, basepath)
                 \o <<basepath \o <<"/", "scs-env.yaml">>>>

\* the loop of _get_env_file_hierarchy over path_parts[:-1]
RECURSIVE PrefixEnvFiles(_, _, _)
PrefixEnvFiles(path_parts, i, envfile_basepath) ==
    IF i >= Len(path_parts) THEN <<>>
    ELSE LET basepath == envfile_basepath \o path_parts[i] \o <<"/">>
         IN  <<basepath \o <<"/", "scs-env.yaml">>>>
                 \o PrefixEnvFiles(path_parts, i + 1, basepath)

\* _get_env_file_hierarchy
get_env_file_hierarchy(relative_path) ==
    <<<<"scs-env.yaml">>>>
        \o PrefixEnvFiles(SplitPath(relative_path), 1, <<>>)
        \o <<relative_path \o <<".scs-env.yaml">>>>

\* _load_env_file without a cache: the data of the file, {} when there is
\* no such file
FileExists(relative_path) == NormPath(relative_path) \in DOMAIN env_files

load_env_file(relative_path) ==
    IF ~FileExists(relative_path) THEN EmptyDict
    ELSE env_files[NormPath(relative_path)]

\* an update that merges maps inside the map as well (the recursive merge
\* that _load_environment does not do)
DeepUpdate(d, other) ==
    [k \in DOMAIN d \cup DOMAIN other |->
        IF k \notin DOMAIN other THEN d[k]
        ELSE IF k \notin DOMAIN d THEN other[k]
        ELSE IF d[k].isdict /\ other[k].isdict
             THEN Dict([j \in DOMAIN d[k].items \cup DOMAIN other[k].items |->
                           IF j \in DOMAIN other[k].items
                           THEN other[k].items[j] ELSE d[k].items[j]])
             ELSE other[k]]

\* dict.update
DictUpdate(d, other) ==
    [k \in DOMAIN d \cup DOMAIN other |->
        IF k \in DOMAIN other THEN other[k] ELSE d[k]]

MergeFileOntoDefaults(combined, data) ==
    [root \in DOMAIN combined |->
        IF root \notin DOMAIN data THEN ENVIRONMENT_DEFAULTS[root]
        ELSE [child \in DOMAIN ENVIRONMENT_DEFAULTS[root]
                            \cup DOMAIN data[root] |->
                 IF child \notin DOMAIN data[root]
                 THEN ENVIRONMENT_DEFAULTS[root][child]
                 ELSE IF data[root][child].isdict
                      THEN Dict(DictUpdate(
                                   ENVIRONMENT_DEFAULTS[root][child].items,
                                   data[root][child].items))
                      ELSE data[root][child]]]

\* the body of the loop of _load_environment for the data of one file
MergeFile(combined, data) ==
    [root \in DOMAIN combined |->
        IF root \notin DOMAIN data THEN combined[root]
        ELSE [child \in DOMAIN combined[root] \cup DOMAIN data[root] |->
                 IF child \notin DOMAIN data[root] THEN combined[root][child]
                 ELSE IF data[root][child].isdict
                      THEN Dict(DictUpdate(combined[root][child].items,
                                           data[root][child].items))
                      ELSE data[root][child]]]

RECURSIVE MergeFiles(_, _, _)
MergeFiles(combined, relative_env_file_paths, i) ==
    IF i > Len(relative_env_file_paths) THEN combined
    ELSE MergeFiles(MergeFile(combined,
                              load_env_file(relative_env_file_paths[i])),
                    relative_env_file_paths, i + 1)

\* _load_environment: EnvFileFormatException when an existing file of the
\* hierarchy fails validation, else the combined environment
load_environment(relative_path) ==
    LET relative_env_file_paths == get_env_file_hierarchy(relative_path)
    IN  IF \E i \in DOMAIN relative_env_file_paths :
               ~ValidEnvFile(load_env_file(relative_env_file_paths[i]))
        THEN [status |-> "env-format-error", env |-> EmptyDict]
        ELSE [status |-> "ok",
              env |-> MergeFiles(ENVIRONMENT_DEFAULTS,
                                 relative_env_file_paths, 1)]

\* the endpoints requested and the override files that may lie on disk
EnvTargets == {<<"b">>, <<"a", "/", "b">>}

EnvFilePaths ==
    {NormPath(get_env_file_hierarchy(t)[i]) :
        i \in 1..3, t \in {<<"a", "/", "b">>}}
    \cup {NormPath(<<"b", ".scs-env.yaml">>)}

EnvFileData ==
    { EmptyDict,
      "template" :> ("context" :> Dict("x" :> "A" @@ "y" :> "A")),
      "template" :> ("context" :> Dict("x" :> "B")),
      "template" :> ("enabled" :> Scalar("false"))
          @@ "response" :> ("status" :> Scalar("404")),
      "response" :> ("status" :> Scalar("201"))
          @@ "template" :> ("context" :> Dict("y" :> "B")),
      "template" :> ("context" :> Scalar("x")) }

InitEnv ==
    /\ env_target \in EnvTargets
    /\ \E present \in SUBSET EnvFilePaths :
          env_files \in [present -> EnvFileData]
    /\ env_status = "pending"
    /\ combined_env = EmptyDict
    /\ options = ServerOptions
    /\ startup = "pending"
    /\ global_whitelist = NoNetworks
    /\ auth_mapping = EmptyDict
    /\ RequestIdle
    /\ PatternIdle
    /\ ExtIdle

\* view_config_file resolves the environment of the endpoint
LoadEnvironment ==
    /\ env_status = "pending"
    /\ env_status' = load_environment(env_target).status
    /\ combined_env' = load_environment(env_target).env
    /\ UNCHANGED <<env_files, env_target, authVars, limiterVars, requestVars,
                   patternVars, extVars>>

NextEnv == LoadEnvironment

SpecEnv == InitEnv /\ [][NextEnv]_vars

(***************************************************************************)
(* Properties of the resolved environment.                                 *)
(***************************************************************************)
Hierarchy == get_env_file_hierarchy(env_target)

\* the files of the search order that set the second-level key
Setters(root, child) ==
    {i \in DOMAIN Hierarchy :
        /\ FileExists(Hierarchy[i])
        /\ root \in DOMAIN load_env_file(Hierarchy[i])
        /\ child \in DOMAIN load_env_file(Hierarchy[i])[root]}

\* the files of the search order that set the item of the map-valued key
ItemSetters(root, child, k) ==
    {i \in Setters(root, child) :
        k \in DOMAIN load_env_file(Hierarchy[i])[root][child].items}

Last(S) == CHOOSE i \in S : \A j \in S : j <= i

FileValue(i, root, child) == load_env_file(Hierarchy[i])[root][child]

\* C10 (as claimed): every second-level key has the value of the last file
\* of the search order that sets it, and the schema default when no file
\* sets it.
C10_LastFileWins ==
    env_status = "ok" =>
        \A root \in DOMAIN ENVIRONMENT_DEFAULTS :
            \A child \in DOMAIN ENVIRONMENT_DEFAULTS[root] :
                combined_env[root][child] =
                    IF Setters(root, child) = {}
                    THEN ENVIRONMENT_DEFAULTS[root][child]
                    ELSE FileValue(Last(Setters(root, child)), root, child)

\* C10 (amended): a second-level key whose value is not a map has the value
\* of the last file that sets it, or the default when no file sets it; a
\* map-valued second-level key holds, for each of its items, the value of
\* the last file that sets that item, or the default's item when no file
\* sets it, and no other item.
C10_LastFileWinsPerItem ==
    env_status = "ok" =>
        \A root \in DOMAIN ENVIRONMENT_DEFAULTS :
            \A child \in DOMAIN ENVIRONMENT_DEFAULTS[root] :
                LET default == ENVIRONMENT_DEFAULTS[root][child]
                    value == combined_env[root][child]
                IN  IF ~default.isdict
                    THEN value =
                            IF Setters(root, child) = {} THEN default
                            ELSE FileValue(Last(Setters(root, child)),
                                           root, child)
                    ELSE /\ value.isdict
                         /\ DOMAIN value.items =
                               DOMAIN default.items \cup
                               UNION {DOMAIN FileValue(i, root, child).items :
                                          i \in Setters(root, child)}
                         /\ \A k \in DOMAIN value.items :
                               value.items[k] =
                                   IF ItemSetters(root, child, k) = {}
                                   THEN default.items[k]
                                   ELSE FileValue(
                                            Last(ItemSetters(root, child, k)),
                                            root, child).items[k]

C10_Witness ==
    /\ env_status = "ok"
    /\ Len(Hierarchy) = 3
    /\ \A i \in DOMAIN Hierarchy : FileExists(Hierarchy[i])
    /\ ItemSetters("template", "context", "x") = {1, 3}
    /\ ItemSetters("template", "context", "y") = {1}
    /\ combined_env["template"]["context"].items = ("x" :> "B" @@ "y" :> "A")
    /\ Setters("response", "status") = {2}
    /\ combined_env["response"]["status"] = Scalar("404")
    /\ combined_env["request"] = ENVIRONMENT_DEFAULTS["request"]

(***************************************************************************)
(* Secrets.  The data handed to serialize_secrets is a tree of dicts,      *)
(* lists, scalars and SCSSecret objects.  Every node is a record of the    *)
(* same shape; a dict holds its keys and its values in insertion order, a  *)
(* secret holds its value as its only item.                                *)
(***************************************************************************)
ScalarNode(v) ==
    [kind |-> "scalar", id |-> <<>>, val |-> v, keys |-> <<>>, items |-> <<>>]

SCSSecret(id_, value) ==
    [kind |-> "secret", id |-> id_, val |-> None, keys |-> <<>>,
     items |-> <<value>>]

\* item.value
SecretValue(secret) == secret.items[1]

ListNode(items) ==
    [kind |-> "list", id |-> <<>>, val |-> None, keys |-> <<>>,
     items |-> items]

DictNode(keys, items) ==
    [kind |-> "dict", id |-> <<>>, val |-> None, keys |-> keys,
     items |-> items]

\* isinstance(value, SCSSecret) and isinstance(value, (dict, list))
IsSecret(node) == node.kind = "secret"

IsContainer(node) == node.kind \in {"dict", "list"}

\* The serialize_secrets of a variant that leaves the secrets of a list in
\* place
RECURSIVE serialize_secrets_keep_list_items(_)
serialize_secrets_keep_list_items(data) ==
    IF data.kind = "list"
    THEN [data |-> data,
          ids |-> {data.items[i].id :
                      i \in {j \in DOMAIN data.items :
                                IsSecret(data.items[j])}}]
    ELSE IF data.kind = "dict"
    THEN LET sub == [i \in DOMAIN data.items |->
                        serialize_secrets_keep_list_items(data.items[i])]
         IN  [data |-> [data EXCEPT !.items =
                          [i \in DOMAIN data.items |->
                              IF IsContainer(data.items[i]) THEN sub[i].data
                              ELSE IF IsSecret(data.items[i])
                              THEN SecretValue(data.items[i])
                              ELSE data.items[i]]],
              ids |-> UNION {IF IsContainer(data.items[i]) THEN sub[i].ids
                             ELSE IF IsSecret(data.items[i])
                             THEN {data.items[i].id}
                             ELSE {} : i \in DOMAIN data.items}]
    ELSE [data |-> data, ids |-> {}]

\* serialize_secrets(data): the data after the in-place serialization and
\* the returned set of ids.  In a list a secret item is replaced and named,
\* every other item is serialized by a recursive call whose result is not
\* used; in a dict a dict or list value is serialized and its ids are added,
\* a secret value is replaced and named.
RECURSIVE serialize_secrets(_)
serialize_secrets(data) ==
    IF data.kind = "list"
    THEN [data |-> [data EXCEPT !.items =
                      [i \in DOMAIN data.items |->
                          IF IsSecret(data.items[i])
                          THEN SecretValue(data.items[i])
                          ELSE serialize_secrets(data.items[i]).data]],
          ids |-> {data.items[i].id :
                      i \in {j \in DOMAIN data.items :
                                IsSecret(data.items[j])}}]
    ELSE IF data.kind = "dict"
    THEN LET sub == [i \in DOMAIN data.items |->
                        serialize_secrets(data.items[i])]
         IN  [data |-> [data EXCEPT !.items =
                          [i \in DOMAIN data.items |->
                              IF IsContainer(data.items[i]) THEN sub[i].data
                              ELSE IF IsSecret(data.items[i])
                              THEN SecretValue(data.items[i])
                              ELSE data.items[i]]],
              ids |-> UNION {IF IsContainer(data.items[i]) THEN sub[i].ids
                             ELSE IF IsSecret(data.items[i])
                             THEN {data.items[i].id}
                             ELSE {} : i \in DOMAIN data.items}]
    ELSE [data |-> data, ids |-> {}]

\* Bounds of the data: the nesting depth of containers, and the numbers of
\* entries a list or a dict has (one or two in the top container, one below)
MaxDepth == 2

WidthsAt(level) == IF level = 1 THEN {1, 2} ELSE {1}

DictKeys == <<"k1", "k2">>

\* A secret is given the path of its position as id, so that every secret of
\* the data has an id of its own; its value is plain data, a scalar or a
\* structure
SecretLeaves ==
    {ScalarNode("plain"), SCSSecret(<<>>, ScalarNode("value")),
     SCSSecret(<<>>, ListNode(<<ScalarNode("value")>>))}

ContainersOf(sub, widths) ==
    UNION {{ListNode(s) : s \in [1..w -> sub]}
              \cup {DictNode(SubSeq(DictKeys, 1, w), s) : s \in [1..w -> sub]}
           : w \in widths}

\* The nodes that can stand at a level, the top container being level 1
RECURSIVE NodesAt(_)
NodesAt(level) ==
    IF level > MaxDepth THEN SecretLeaves
    ELSE SecretLeaves \cup ContainersOf(NodesAt(level + 1), WidthsAt(level))

RECURSIVE WithIds(_, _)
WithIds(node, path) ==
    IF IsSecret(node) THEN SCSSecret(path, SecretValue(node))
    ELSE IF IsContainer(node)
    THEN [node EXCEPT !.items =
            [i \in DOMAIN node.items |->
                WithIds(node.items[i], Append(path, i))]]
    ELSE node

\* view_config_file and init call serialize_secrets with a dict; the
\* annotation also admits a list
SecretInputs ==
    {WithIds(n, <<>>) : n \in ContainersOf(NodesAt(2), WidthsAt(1))}

InitSecrets ==
    /\ secret_input \in SecretInputs
    /\ secret_prev = secret_input
    /\ secret_data = secret_input
    /\ secret_ids = {}
    /\ secret_calls = 0
    /\ options = ServerOptions
    /\ startup = "pending"
    /\ global_whitelist = NoNetworks
    /\ auth_mapping = EmptyDict
    /\ RequestIdle
    /\ PatternIdle
    /\ EnvIdle
    /\ ViewIdle
    /\ IoIdle

\* One call of serialize_secrets on the data, which it changes in place
SerializeSecrets ==
    /\ secret_calls < 2
    /\ secret_prev' = secret_data
    /\ secret_data' = serialize_secrets(secret_data).data
    /\ secret_ids' = serialize_secrets(secret_data).ids
    /\ secret_calls' = secret_calls + 1
    /\ UNCHANGED <<secret_input, authVars, limiterVars, requestVars,
                   patternVars, envVars, viewVars, ioVars>>

NextSecrets == SerializeSecrets

SpecSecrets == InitSecrets /\ [][NextSecrets]_vars

\* The ids of the SCSSecret objects in the data, at any depth
RECURSIVE SecretIdsIn(_)
SecretIdsIn(node) ==
    IF IsSecret(node) THEN {node.id}
    ELSE UNION {SecretIdsIn(node.items[i]) : i \in DOMAIN node.items}

\* The secrets a call replaced: in the data before it, no longer after it
ReplacedIds(before, after) == SecretIdsIn(before) \ SecretIdsIn(after)

\* C11: the set returned by serialize_secrets contains the id of every
\* secret the call replaced, at any nesting depth of dicts and lists.
C11_ReturnsEveryReplacedId ==
    secret_calls = 1 => ReplacedIds(secret_input, secret_data) \subseteq secret_ids

Pardir == <<"..">>

\* any([p == os.path.pardir for p in path.split('/')])
ReferencesParent(path) ==
    \E i \in DOMAIN SplitPath(path) : SplitPath(path)[i] = Pardir

\* path.endswith('scs-env.yaml')
EndsWithEnvFileName(path) ==
    /\ path # <<>>
    /\ path[Len(path)] \in {"scs-env.yaml", ".scs-env.yaml"}

\* the location the file system resolves a sequence of path components to,
\* relative to the config directory: a parent reference drops the component
\* before it, or stays in front when the location leaves the directory
RECURSIVE ResolveParts(_, _)
ResolveParts(parts, done) ==
    IF parts = <<>> THEN done
    ELSE IF Head(parts) = Pardir /\ done # <<>> /\ done[Len(done)] # Pardir
         THEN ResolveParts(Tail(parts), SubSeq(done, 1, Len(done) - 1))
         ELSE ResolveParts(Tail(parts), Append(done, Head(parts)))

Location(path) == ResolveParts(NormPath(path), <<>>)

\* files next to the config directory, outside of it
OutsideFiles == {<<Pardir, <<"scs-users.yaml">>>>}

\* the files below the config directory
ConfigFiles == DOMAIN env_files \cup DOMAIN view_templates

\* Path(config_basepath, path).is_file()
IsFile(path) == Location(path) \in ConfigFiles \cup OutsideFiles

endpoint_exists_no_parent_check(path) ==
    IF EndsWithEnvFileName(path) THEN FALSE
    ELSE IsFile(path)

\* _endpoint_exists
endpoint_exists(path) ==
    IF ReferencesParent(path) THEN FALSE
    ELSE IF EndsWithEnvFileName(path) THEN FALSE
    ELSE IsFile(path)

\* what _load_env_file raises for one file of the hierarchy: the exception
\* of yaml.load_file, or EnvFileFormatException from the validation
load_env_file_exception(relative_path) ==
    IF ~FileExists(relative_path) THEN None
    ELSE IF NormPath(relative_path) \in DOMAIN view_faults
    THEN view_faults[NormPath(relative_path)]
    ELSE IF ~ValidEnvFile(load_env_file(relative_path))
    THEN "EnvFileFormatException"
    ELSE None

\* _load_environment as the view calls it: the exception of the first file
\* of the hierarchy that raises one, else the combined environment
load_environment_or_raise(relative_path) ==
    LET relative_env_file_paths == get_env_file_hierarchy(relative_path)
        failing == {i \in DOMAIN relative_env_file_paths :
                       load_env_file_exception(relative_env_file_paths[i])
                           # None}
    IN  IF failing # {}
        THEN LET first == CHOOSE i \in failing : \A j \in failing : i <= j
             IN  [exception |->
                      load_env_file_exception(relative_env_file_paths[first]),
                  env |-> EmptyDict]
        ELSE [exception |-> None,
              env |-> MergeFiles(ENVIRONMENT_DEFAULTS,
                                 relative_env_file_paths, 1)]

\* env['request']['methods']: the list a value of the model stands for
MethodsOf(value) ==
    IF value.val = "GET" THEN {"GET"}
    ELSE IF value.val = "POST" THEN {"POST"}
    ELSE {"GET", "POST"}

\* request.get_json(force=True): a body that is no JSON document, or a JSON
\* object
NoJson == [json |-> FALSE, items |-> EmptyDict]
JsonBody(f) == [json |-> TRUE, items |-> f]

\* fastjsonschema.validate(schema, body) for a schema that names the
\* properties it requires
SchemaAccepts(schema, body) ==
    \A k \in DOMAIN schema.items :
        k = "required" => schema.items[k] \in DOMAIN body.items

\* the !scs-secret references of the override files; the constructor makes
\* an SCSSecret whose id is the reference
ViewSecretRefs == {"!scs-secret db#pw", "!scs-secret root#pw"}

RECURSIVE SeqOfSet(_)
SeqOfSet(S) ==
    IF S = {} THEN <<>>
    ELSE LET x == CHOOSE x \in S : TRUE
         IN  <<x>> \o SeqOfSet(S \ {x})

ItemNode(v) ==
    IF v \in ViewSecretRefs THEN SCSSecret(v, ScalarNode("value"))
    ELSE ScalarNode(v)

ValueNode(value) ==
    IF value.isdict
    THEN LET keys == SeqOfSet(DOMAIN value.items)
         IN  DictNode(keys, [i \in DOMAIN keys |->
                                ItemNode(value.items[keys[i]])])
    ELSE ScalarNode(value.val)

SectionNode(section) ==
    LET keys == SeqOfSet(DOMAIN section)
    IN  DictNode(keys, [i \in DOMAIN keys |-> ValueNode(section[keys[i]])])

\* the environment as the data serialize_secrets gets
EnvNode(env) ==
    LET keys == SeqOfSet(DOMAIN env)
    IN  DictNode(keys, [i \in DOMAIN keys |-> SectionNode(env[keys[i]])])

\* the first key of _error_definitions[code], or the id made of e.name for
\* a code without definitions
FirstErrorId(code) ==
    IF code = 400 THEN "bad-request"
    ELSE IF code = 401 THEN "unauthenticated"
    ELSE IF code = 403 THEN "unauthorized"
    ELSE IF code = 404 THEN "not-found"
    ELSE IF code = 405 THEN "method-not-allowed"
    ELSE "internal-server-error"

\* _get_500_error_id with the exceptions the configs blueprint registers
get_500_error_id(exception) ==
    IF exception = "YAMLError" THEN "env-syntax-error"
    ELSE IF exception = "TemplateError" THEN "template-rendering-error"
    ELSE IF exception = "EnvFileFormatException" THEN "env-format-error"
    ELSE FirstErrorId(500)

\* an aborted request: abort(code, description) or an exception
ViewAbort(code, description_id, exception, env_resolved, serialized, ids) ==
    [status |-> code,
     error_id |-> IF code = 500 THEN get_500_error_id(exception)
                  ELSE IF description_id # None THEN description_id
                  ELSE FirstErrorId(code),
     exception |-> exception, env_resolved |-> env_resolved,
     serialized |-> serialized, secret_ids |-> ids, rendered |-> FALSE,
     content |-> <<>>, events |-> <<>>]

\* _add_audit_event for the events of the configs blueprint
SecretsEvent(ip, path, user_id, ids) ==
    [type |-> "secrets-loaded",
     details |-> [ip |-> ip, path |-> path, user |-> user_id,
                  secrets |-> ids]]

ServedEventsSecretsAlways(ip, path, user_id, ids) ==
    <<AuditEvent("config-loaded", ip, path, user_id),
      SecretsEvent(ip, path, user_id, ids)>>

\* the audit events at the end of view_config_file
ServedEvents(ip, path, user_id, ids) ==
    <<AuditEvent("config-loaded", ip, path, user_id)>>
        \o (IF ids # {} THEN <<SecretsEvent(ip, path, user_id, ids)>>
            ELSE <<>>)

\* the status the response of a served request gets from the environment
StatusOf(value) ==
    IF value.val = "200" THEN 200
    ELSE IF value.val = "201" THEN 201
    ELSE IF value.val = "404" THEN 404
    ELSE 200

\* view_config_file from the serialization of the secrets on
ViewRender(path, env, user_id, ip) ==
    LET secret_ids_ == serialize_secrets(EnvNode(env)).ids
        request_path_ == <<"/configs/">> \o path
        served(rendered) ==
            [status |-> StatusOf(env["response"]["status"]),
             error_id |-> None, exception |-> None, env_resolved |-> TRUE,
             serialized |-> TRUE, secret_ids |-> secret_ids_,
             rendered |-> rendered, content |-> Location(path),
             events |-> ServedEvents(ip, request_path_, user_id,
                                     secret_ids_)]
    IN  IF env["template"]["enabled"].val = "true"
        THEN IF \/ ReferencesParent(path)
                \/ Location(path) \notin DOMAIN view_templates
                \/ view_templates[Location(path)] = "TemplateError"
             THEN ViewAbort(500, None, "TemplateError", TRUE, TRUE,
                            secret_ids_)
             ELSE served(TRUE)
        ELSE IF \/ ReferencesParent(path)
                \/ Location(path) \notin ConfigFiles
             THEN ViewAbort(404, None, None, TRUE, TRUE, secret_ids_)
             ELSE served(FALSE)

\* view_config_file from the method check on
ViewCheckRequest(path, method, body, env, user_id, ip) ==
    IF method \notin MethodsOf(env["request"]["methods"])
    THEN ViewAbort(405, None, None, TRUE, FALSE, {})
    ELSE IF method = "POST"
    THEN IF ~body.json
         THEN ViewAbort(400, None, None, TRUE, FALSE, {})
         ELSE IF /\ env["request"]["schema"].items # EmptyDict
                 /\ ~SchemaAccepts(env["request"]["schema"], body)
         THEN ViewAbort(400, "request-body-invalid", None, TRUE, FALSE, {})
         ELSE ViewRender(path,
                  [env EXCEPT !["template"]["context"] =
                      Dict(DictUpdate(@.items, body.items))],
                  user_id, ip)
    ELSE ViewRender(path, env, user_id, ip)

\* a variant that reads the body before it checks the method
view_config_file_body_first(path, method, body, user_id, ip) ==
    IF ~endpoint_exists(path)
    THEN ViewAbort(404, None, None, FALSE, FALSE, {})
    ELSE LET loaded == load_environment_or_raise(path)
         IN  IF loaded.exception # None
             THEN ViewAbort(500, None, loaded.exception, FALSE, FALSE, {})
             ELSE IF method = "POST" /\ ~body.json
             THEN ViewAbort(400, None, None, TRUE, FALSE, {})
             ELSE ViewCheckRequest(path, method, body, loaded.env, user_id,
                                   ip)

\* view_config_file
view_config_file(path, method, body, user_id, ip) ==
    IF ~endpoint_exists(path)
    THEN ViewAbort(404, None, None, FALSE, FALSE, {})
    ELSE LET loaded == load_environment_or_raise(path)
         IN  IF loaded.exception # None
             THEN ViewAbort(500, None, loaded.exception, FALSE, FALSE, {})
             ELSE ViewCheckRequest(path, method, body, loaded.env, user_id,
                                   ip)

\* request.path of a request to the configs blueprint
RequestPath(path) == <<"/configs/">> \o path

\* One request from the before-request hooks to the response: check_auth,
\* then the view function for a request check_auth lets through
handle_request(ip, headers, path, method, body) ==
    LET checked == check_auth(ip, headers, RequestPath(path))
    IN  IF checked.outcome # "Allowed"
        THEN [auth |-> checked,
              view |-> [status |-> checked.status,
                        error_id |-> checked.error_id, exception |-> None,
                        env_resolved |-> FALSE, serialized |-> FALSE,
                        secret_ids |-> {}, rendered |-> FALSE,
                        content |-> <<>>, events |-> checked.events]]
        ELSE [auth |-> checked,
              view |-> view_config_file(path, method, body,
                          auth_mapping[RemovePrefix(headers.value)].id, ip)]

\* the server the requests go to: u1 may read every endpoint, u2 only t
ViewOptions ==
    [networks |-> [private_only |-> FALSE,
                   whitelist |-> {Net(4, 8, 1), Net(6, 0, 2)}],
     max_auth_fails_per_15_min |-> MaxAuthFails,
     users |-> << User("u1", Str1("T1"), {Net(4, 8, 2)},
                       <<Str2("/configs/", "*")>>),
                  User("u2", Str1("T2"), {Net(4, 8, 1)},
                       <<Str2("/configs/", "t")>>) >>]

\* clients: u1 from its network, u1 from another one, an unknown token, an
\* address outside the global whitelist, u2
ViewClients ==
    { [ip |-> Ip(4, 9), headers |-> Header(Str2("Bearer ", "T1"))],
      [ip |-> Ip(4, 12), headers |-> Header(Str2("Bearer ", "T1"))],
      [ip |-> Ip(4, 9), headers |-> Header(Str2("Bearer ", "bad"))],
      [ip |-> Ip(6, 9), headers |-> Header(Str2("Bearer ", "T1"))],
      [ip |-> Ip(4, 12), headers |-> Header(Str2("Bearer ", "T2"))] }

ViewPaths ==
    { <<"t">>, <<"..", "/", "scs-users.yaml">>, <<"d", "/", "..", "/", "t">>,
      <<"scs-env.yaml">>, <<"t", ".scs-env.yaml">>, <<"missing">> }

ViewMethods == {"GET", "POST"}

ViewBodies == {NoJson, JsonBody("x" :> "1"), JsonBody("pw" :> "1")}

\* the override files of endpoint t that load, the last one failing the
\* schema
RootEnvFile == NormPath(<<"scs-env.yaml">>)
EndpointEnvFile == NormPath(<<"t", ".scs-env.yaml">>)

ViewEnvFileData ==
    { "request" :> ( "methods" :> Scalar("POST")
                  @@ "schema" :> Dict("required" :> "x") ),
      "request" :> ("methods" :> Scalar("GET,POST"))
          @@ "template" :> ("context" :> Dict("pw" :> "!scs-secret db#pw")),
      "template" :> ("enabled" :> Scalar("false"))
          @@ "response" :> ("status" :> Scalar("201")),
      "template" :> ("context" :> Scalar("x")) }

\* what yaml.load_file raises on a file it cannot load: a YAML syntax
\* error, an unresolved reference (_get_data), a missing environment
\* variable (_get_env_var)
LoadFaults == {"YAMLError", "ValueError", "KeyError"}

\* the states of the config directory
ViewDisks ==
    { [env_files |-> root @@ endpoint.data, faults |-> endpoint.faults,
       templates |-> NormPath(<<"t">>) :> t] :
        root \in { EmptyDict,
                   RootEnvFile :> ( "template" :>
                       ("context" :> Dict("rootpw" :> "!scs-secret root#pw"))) },
        endpoint \in
            {[data |-> EmptyDict, faults |-> EmptyDict]}
            \cup {[data |-> EndpointEnvFile :> data, faults |-> EmptyDict] :
                     data \in ViewEnvFileData}
            \cup {[data |-> EndpointEnvFile :> EmptyDict,
                   faults |-> EndpointEnvFile :> fault] :
                     fault \in LoadFaults},
        t \in {"ok", "TemplateError"} }

\* the server has started with ViewOptions
ViewServer ==
    /\ options = ViewOptions
    /\ startup = AuthInit(ViewOptions).status
    /\ global_whitelist = AuthInit(ViewOptions).global_whitelist
    /\ auth_mapping = AuthInit(ViewOptions).auth_mapping
    /\ RequestIdle
    /\ PatternIdle
    /\ SecretsIdle
    /\ IoIdle
    /\ env_target = <<>>
    /\ env_status = "pending"
    /\ combined_env = EmptyDict
    /\ view_last = NoViewRequest
    /\ audit_log = <<>>
    /\ view_count = 0

InitView ==
    /\ ViewServer
    /\ \E disk \in ViewDisks :
          /\ env_files = disk.env_files
          /\ view_faults = disk.faults
          /\ view_templates = disk.templates

\* the request is handled and log_audit_event writes its events to the log
Handle(ip, headers, path, method, body) ==
    LET r == handle_request(ip, headers, path, method, body)
    IN  /\ current_window' = r.auth.current_window
        /\ invalid_auth_attempts' = r.auth.counts
        /\ view_last' =
              [handled |-> TRUE, ip |-> ip, headers |-> headers,
               path |-> path, method |-> method, body |-> body,
               auth |-> r.auth.outcome, status |-> r.view.status,
               error_id |-> r.view.error_id,
               exception |-> r.view.exception,
               env_resolved |-> r.view.env_resolved,
               serialized |-> r.view.serialized,
               secret_ids |-> r.view.secret_ids,
               rendered |-> r.view.rendered, content |-> r.view.content,
               events |-> r.view.events]
        /\ audit_log' = audit_log \o r.view.events
        /\ view_count' = view_count + 1
        /\ UNCHANGED <<authVars, now, requestVars, patternVars, envVars,
                       secretVars, view_templates, view_faults, ioVars>>

\* One request to the configs blueprint
ViewRequest ==
    /\ startup = "ok"
    /\ view_count < 1
    /\ \E client \in ViewClients, path \in ViewPaths, method \in ViewMethods,
          body \in ViewBodies :
          Handle(client.ip, client.headers, path, method, body)

NextView == ViewRequest

SpecView == InitView /\ [][NextView]_vars

\* the request was let through by check_auth
Authorized == view_last.handled /\ view_last.auth = "Allowed"

\* the path names a file below the config directory
NamesConfigFile(path) ==
    /\ Location(path) \in ConfigFiles
    /\ Location(path) = <<>> \/ Head(Location(path)) # Pardir

\* C13: an authorized request whose path has a segment equal to "..", or
\* ends with scs-env.yaml, or names no file under the config directory, is
\* answered 404; no environment is resolved, no template is rendered and no
\* file content is returned.
C13_NoEndpointMeans404 ==
    Authorized
    /\ ( \/ \E i \in DOMAIN SplitPath(view_last.path) :
                SplitPath(view_last.path)[i] = <<"..">>
         \/ view_last.path[Len(view_last.path)]
                \in {"scs-env.yaml", ".scs-env.yaml"}
         \/ ~NamesConfigFile(view_last.path) )
    => /\ view_last.status = 404
       /\ ~view_last.env_resolved
       /\ ~view_last.rendered
       /\ view_last.content = <<>>

\* C13 witness: an authorized request for ../scs-users.yaml, a file that
\* lies next to the config directory, was answered 404.
C13_Witness ==
    /\ Authorized
    /\ view_last.path = <<"..", "/", "scs-users.yaml">>
    /\ Location(view_last.path) \in OutsideFiles
    /\ view_last.status = 404

\* the path names an endpoint: none of the cases of C13
NamesEndpoint(path) ==
    /\ ~\E i \in DOMAIN SplitPath(path) : SplitPath(path)[i] = <<"..">>
    /\ path[Len(path)] \notin {"scs-env.yaml", ".scs-env.yaml"}
    /\ NamesConfigFile(path)

\* the environment of the endpoint resolves: no override file of its
\* hierarchy fails to load or to validate
EnvResolves(path) ==
    \A i \in DOMAIN get_env_file_hierarchy(path) :
        LET file == NormPath(get_env_file_hierarchy(path)[i])
        IN  file \in DOMAIN env_files
                => /\ file \notin DOMAIN view_faults
                   /\ ValidEnvFile(env_files[file])

\* the merged request section of the endpoint's environment
MergedRequest(path) == load_environment(path).env["request"]

\* the request asks for nothing the view function answers before it
\* serializes secrets
NothingServed ==
    /\ ~view_last.serialized
    /\ view_last.secret_ids = {}
    /\ ~view_last.rendered
    /\ view_last.events = <<>>

\* C14: for an authorized request to an existing endpoint whose environment
\* resolves, the response is 405 when the method is not in the merged
\* request.methods, otherwise 400 when a POST body is not valid JSON or
\* fails the merged request.schema (id request-body-invalid for a schema
\* failure); in these cases no secret is serialized and neither
\* config-loaded nor secrets-loaded is emitted.
C14_MethodThenBody ==
    Authorized /\ NamesEndpoint(view_last.path)
               /\ EnvResolves(view_last.path)
    => LET request_ == MergedRequest(view_last.path)
           allowed == view_last.method \in MethodsOf(request_["methods"])
           schema_fails ==
               /\ view_last.body.json
               /\ request_["schema"].items # EmptyDict
               /\ \E k \in DOMAIN request_["schema"].items :
                     /\ k = "required"
                     /\ request_["schema"].items[k]
                            \notin DOMAIN view_last.body.items
       IN  /\ ~allowed => view_last.status = 405 /\ NothingServed
           /\ allowed /\ view_last.method = "POST" /\ ~view_last.body.json
                 => view_last.status = 400 /\ NothingServed
           /\ allowed /\ view_last.method = "POST" /\ schema_fails
                 => /\ view_last.status = 400
                    /\ view_last.error_id = "request-body-invalid"
                    /\ NothingServed

\* C14 witness: a POST to an endpoint that allows POST, with a JSON body
\* that fails the merged schema, was answered 400 request-body-invalid.
C14_Witness ==
    /\ Authorized
    /\ view_last.method = "POST"
    /\ view_last.body.json
    /\ "POST" \in MethodsOf(MergedRequest(view_last.path)["methods"])
    /\ view_last.status = 400
    /\ view_last.error_id = "request-body-invalid"

\* the failures the data of the config directory causes while a request is
\* handled, by the exception that reports them
DataCausedFailures ==
    {"YAMLError", "EnvFileFormatException", "TemplateError", "ValueError",
     "KeyError"}

\* C15: each data-caused failure while handling a request gives a 500
\* response whose error id is specific to the failing subsystem and never
\* the generic internal-server-error; YAML syntax errors give
\* env-syntax-error, schema failures env-format-error and rendering
\* failures template-rendering-error.
C15_SpecificErrorIds ==
    view_last.handled /\ view_last.exception \in DataCausedFailures
    => /\ view_last.status = 500
       /\ view_last.error_id # "internal-server-error"
       /\ view_last.exception = "YAMLError"
             => view_last.error_id = "env-syntax-error"
       /\ view_last.exception = "EnvFileFormatException"
             => view_last.error_id = "env-format-error"
       /\ view_last.exception = "TemplateError"
             => view_last.error_id = "template-rendering-error"

(***************************************************************************)
(* The audit log over a sequence of requests (scs/logging.py).  The        *)
(* config directory holds endpoint t, whose override file allows GET and   *)
(* POST and puts a secret in the template context.                         *)
(***************************************************************************)
MaxAuditRequests == 3

AuditDisk ==
    [env_files |->
        EndpointEnvFile :>
            ( "request" :> ("methods" :> Scalar("GET,POST"))
           @@ "template" :> ("context" :> Dict("pw" :> "!scs-secret db#pw")) ),
     faults |-> EmptyDict,
     templates |-> NormPath(<<"t">>) :> "ok"]

AuditPaths == {<<"t">>, <<"missing">>}

\* a POST body that replaces the secret of the context by a plain value
AuditBodies == {JsonBody("pw" :> "1")}

InitAudit ==
    /\ ViewServer
    /\ env_files = AuditDisk.env_files
    /\ view_faults = AuditDisk.faults
    /\ view_templates = AuditDisk.templates

\* One of a sequence of requests to the configs blueprint
AuditedRequest ==
    /\ startup = "ok"
    /\ view_count < MaxAuditRequests
    /\ \E client \in ViewClients, path \in AuditPaths,
          method \in ViewMethods, body \in AuditBodies :
          Handle(client.ip, client.headers, path, method, body)

NextAudit == AuditedRequest

SpecAudit == InitAudit /\ [][NextAudit]_vars

EventTypes(events) == [i \in DOMAIN events |-> events[i].type]

\* the request was served: the view function returned a response
Served(r) == r.auth = "Allowed" /\ r.content # <<>>

\* the events the claim gives a request by its outcome
ClaimedEventTypes(r) ==
    IF Served(r)
    THEN <<"config-loaded">>
             \o (IF r.secret_ids # {} THEN <<"secrets-loaded">> ELSE <<>>)
    ELSE IF r.auth = "Unauthenticated" THEN <<"unauthenticated">>
    ELSE IF r.auth = "RateLimited" THEN <<"rate-limited">>
    ELSE IF r.auth = "UnauthorizedPath" THEN <<"unauthorized-path">>
    ELSE IF r.auth = "UnauthorizedIP"
    THEN IF Contains(global_whitelist, r.ip) THEN <<"unauthorized-ip">>
         ELSE <<>>
    ELSE <<>>

\* the outcomes the claim speaks of
ClaimedOutcome(r) ==
    \/ Served(r)
    \/ r.auth \in {"Unauthenticated", "RateLimited", "UnauthorizedPath",
                   "UnauthorizedIP"}

\* C16: each request adds to the end of the audit log exactly the events of
\* its outcome: config-loaded, followed by secrets-loaded exactly when a
\* secret id was collected, for a served request; one unauthenticated,
\* unauthorized-ip, unauthorized-path or rate-limited event for these
\* rejections; nothing for a rejection by the global whitelist.
C16_AuditLogPerRequest ==
    [][view_count' = view_count + 1 /\ ClaimedOutcome(view_last')
        => /\ Len(audit_log') >= Len(audit_log)
           /\ SubSeq(audit_log', 1, Len(audit_log)) = audit_log
           /\ EventTypes(SubSeq(audit_log', Len(audit_log) + 1,
                                Len(audit_log')))
                 = ClaimedEventTypes(view_last')]_vars

\* C16 witness: a served request with a secret, an unauthenticated request
\* and a rate-limited one have left their events in the log, in this order.
C16_Witness ==
    /\ view_count = 3
    /\ EventTypes(audit_log)
          = <<"config-loaded", "secrets-loaded", "unauthenticated",
              "rate-limited">>

(***************************************************************************)
(* Override files behind the two caches: yaml.load_file with the parsed-   *)
(* file cache, and _load_env_file with the environment cache.  A file is   *)
(* the sequence of the values its YAML document holds, a tag standing for  *)
(* the node it is put on; the empty sequence is the empty document, which  *)
(* parses to None.                                                         *)
(***************************************************************************)

\* Python's None as the result of parsing an empty document
NoData == <<>>

FileAbsent == [exists |-> FALSE, entries |-> <<>>]
FileWith(entries) == [exists |-> TRUE, entries |-> entries]

\* An entry of a cache's dict: Miss when the key is not in it
Miss == [present |-> FALSE, data |-> NoData]
Slot(data) == [present |-> TRUE, data |-> data]

GenSecretTag == "!scs-gen-secret"
SecretTag == "!scs-secret"
\* the SCSSecret object that SCSSecretConstructor builds
SecretObject == "SCSSecret"
\* what yaml.dump writes for an object that is not a plain value
PythonObjectTag == "!!python/object:scs.yaml.SCSSecret"
\* secrets.token_urlsafe(randint(32, 64)): one of the values it can return
Tokens == {"token1", "token2"}

\* _ParsedFileCache.disabled: False from construction on, disable() is not
\* called anywhere in the server
filecache_disabled == FALSE

\* _ParsedFileCache.get_file: None unless data that is not None is cached
get_file(cache, path) ==
    IF ~filecache_disabled /\ cache[path].present THEN cache[path].data
    ELSE NoData

\* _ParsedFileCache.add_file
add_file(cache, path, data) ==
    IF ~filecache_disabled THEN [cache EXCEPT ![path] = Slot(data)]
    ELSE cache

\* EnvironmentFileCache.get: None unless data that is not None is cached
EnvCacheGet(cache, path) ==
    IF cache[path].present THEN cache[path].data ELSE NoData

\* EnvironmentFileCache.add
EnvCacheAdd(cache, path, data) == [cache EXCEPT ![path] = Slot(data)]

\* The constructor the loader calls for one node: SCSGenSecretConstructor
\* returns a fresh token, SCSSecretConstructor an SCSSecret object, and an
\* untagged node is its value
construct(entry, token) ==
    CASE entry = GenSecretTag -> token
      [] entry = SecretTag -> SecretObject
      [] OTHER -> entry

\* yaml_loader.get_single_data(): the loader, built on SafeLoader, has no
\* constructor for a python/object tag; resave is set by
\* SCSGenSecretConstructor.construct
get_single_data(entries, tokens) ==
    [error |-> IF \E i \in DOMAIN entries : entries[i] = PythonObjectTag
               THEN "ConstructorError" ELSE None,
     data |-> [i \in DOMAIN entries |-> construct(entries[i], tokens[i])],
     resave |-> \E i \in DOMAIN entries : entries[i] = GenSecretTag]

\* dump(data, yamlfile, sort_keys=False): yaml's default Dumper represents
\* an SCSSecret object as a python/object node
dump(data) ==
    [i \in DOMAIN data |->
        IF data[i] = SecretObject THEN PythonObjectTag ELSE data[i]]

LoadResult(data, error, parsed, wrote, disk, cache) ==
    [data |-> data, error |-> error, parsed |-> parsed, wrote |-> wrote,
     disk |-> disk, filecache |-> cache]

\* yaml.load_file; tokens are the values the generator returns for the
\* nodes of the file
load_file(path, tokens, disk, cache) ==
    LET cached == get_file(cache, path)
        loaded == get_single_data(disk[path].entries, tokens)
    IN  IF cached # NoData
        THEN LoadResult(cached, None, FALSE, FALSE, disk, cache)
        ELSE IF ~disk[path].exists
        THEN LoadResult(NoData, "FileNotFoundError", FALSE, FALSE, disk,
                        cache)
        ELSE IF loaded.error # None
        THEN LoadResult(NoData, loaded.error, TRUE, FALSE, disk, cache)
        ELSE LoadResult(loaded.data, None, TRUE, loaded.resave,
                        IF loaded.resave
                        THEN [disk EXCEPT ![path] = FileWith(dump(loaded.data))]
                        ELSE disk,
                        add_file(cache, path, loaded.data))

\* The files and the caches, as one value
FileState(disk, fcache, ecache) ==
    [disk |-> disk, filecache |-> fcache, env_cache |-> ecache]

EnvFileResult(used, error, parsed, wrote, st) ==
    [used |-> used, error |-> error, parsed |-> parsed, wrote |-> wrote,
     st |-> st]

\* the end of _load_env_file: _validate_env_file accepts no None
Validated(r, st) ==
    EnvFileResult(Slot(r.data),
                  IF r.error # None THEN r.error
                  ELSE IF r.data = NoData THEN "EnvFileFormatException"
                  ELSE None,
                  r.parsed, r.wrote, st)

\* _load_env_file that looks into the environment cache before it looks at
\* the disk
load_env_file_cache_first(path, tokens, enabled, st) ==
    LET cached == EnvCacheGet(st.env_cache, path)
        r == load_file(path, tokens, st.disk, st.filecache)
    IN  IF enabled /\ cached # NoData
        THEN EnvFileResult(Slot(cached), None, FALSE, FALSE, st)
        ELSE IF ~st.disk[path].exists
        THEN EnvFileResult(Miss, None, FALSE, FALSE, st)
        ELSE IF enabled
        THEN Validated(r,
                 FileState(r.disk, r.filecache,
                     IF r.error = None
                     THEN EnvCacheAdd(st.env_cache, path, r.data)
                     ELSE st.env_cache))
        ELSE Validated(r, FileState(r.disk, r.filecache, st.env_cache))

\* _load_env_file with the caches: enabled says that app.scs.env_cache is
\* not None.  The result says which data the environment is built from
\* (Miss: the {} of a file that is not there)
LoadEnvFile(path, tokens, enabled, st) ==
    LET cached == EnvCacheGet(st.env_cache, path)
        r == load_file(path, tokens, st.disk, st.filecache)
    IN  IF ~st.disk[path].exists
        THEN EnvFileResult(Miss, None, FALSE, FALSE, st)
        ELSE IF enabled /\ cached # NoData
        THEN EnvFileResult(Slot(cached), None, FALSE, FALSE, st)
        ELSE IF enabled
        THEN Validated(r,
                 FileState(r.disk, r.filecache,
                     IF r.error = None
                     THEN EnvCacheAdd(st.env_cache, path, r.data)
                     ELSE st.env_cache))
        ELSE Validated(r, FileState(r.disk, r.filecache, st.env_cache))

\* What a walk over the hierarchy has done so far: the data used per file,
\* the files it came to, parsed and rewrote, and the exception that ended it
Walk(used, reached, parsed, wrote, error, st) ==
    [used |-> used, reached |-> reached, parsed |-> parsed, wrote |-> wrote,
     error |-> error, st |-> st]

\* the loop of _load_environment over the hierarchy, which an exception of
\* _load_env_file ends
RECURSIVE LoadFiles(_, _, _, _, _)
LoadFiles(paths, i, tokens, enabled, walk) ==
    IF i > Len(paths) \/ walk.error # None THEN walk
    ELSE LET path == paths[i]
             r == LoadEnvFile(path, tokens[path], enabled, walk.st)
         IN  LoadFiles(paths, i + 1, tokens, enabled,
                 Walk([walk.used EXCEPT ![path] = r.used],
                      walk.reached \cup {path},
                      walk.parsed \cup (IF r.parsed THEN {path} ELSE {}),
                      walk.wrote \cup (IF r.wrote THEN {path} ELSE {}),
                      r.error, r.st))

\* The endpoint served and the override files of its hierarchy
CachePath == <<"t">>

CacheFiles ==
    [i \in DOMAIN get_env_file_hierarchy(CachePath) |->
        NormPath(get_env_file_hierarchy(CachePath)[i])]

CacheFileSet == {CacheFiles[i] : i \in DOMAIN CacheFiles}

NoSlots == [path \in CacheFileSet |-> Miss]

\* _load_environment for the endpoint, through the caches
load_environment_files(tokens, enabled, st) ==
    LoadFiles(CacheFiles, 1, tokens, enabled,
              Walk(NoSlots, {}, {}, {}, None, st))

\* Bound of the files: the number of values a document holds
MaxEntries == 2

\* The values the generator may return for the nodes of the files; where a
\* file has no generate-secret tag the value is not used, and one stands
\* for all
TokensFor(disk) ==
    { tokens \in [CacheFileSet -> [1..MaxEntries -> Tokens]] :
        \A path \in CacheFileSet, i \in 1..MaxEntries :
            tokens[path][i] # "token1"
                => /\ i \in DOMAIN disk[path].entries
                   /\ disk[path].entries[i] = GenSecretTag }

LastOp(op, walk) ==
    [op |-> op, used |-> walk.used, reached |-> walk.reached,
     parsed |-> walk.parsed, wrote |-> walk.wrote, error |-> walk.error]

NoOp == LastOp("none", Walk(NoSlots, {}, {}, {}, None, <<>>))

\* The walk is taken into the state of the server; file_first keeps the
\* data of the first load that found data (an empty document until then)
Loaded(op, walk) ==
    /\ file_disk' = walk.st.disk
    /\ filecache' = walk.st.filecache
    /\ env_cache' = walk.st.env_cache
    /\ file_first' =
          [path \in CacheFileSet |->
              IF file_first[path].data = NoData /\ path \in walk.parsed
              THEN walk.used[path] ELSE file_first[path]]
    /\ file_generated' =
          [path \in CacheFileSet |->
              IF path \in walk.wrote THEN walk.used[path]
              ELSE file_generated[path]]
    /\ file_last' = LastOp(op, walk)

\* configs.init: every endpoint's environment is loaded at startup if the
\* cache or the template check is enabled; an exception ends the process
PreloadFiles ==
    /\ file_phase = "init"
    /\ IF file_opts.cache \/ file_opts.check_templates
       THEN \E tokens \in TokensFor(file_disk) :
               LET walk == load_environment_files(tokens, file_opts.cache,
                               FileState(file_disk, filecache, env_cache))
               IN  /\ Loaded("preload", walk)
                   /\ file_phase' = IF walk.error # None THEN "crashed"
                                    ELSE "serving"
       ELSE /\ file_phase' = "serving"
            /\ UNCHANGED <<file_disk, filecache, env_cache, file_first,
                           file_generated, file_last>>
    /\ UNCHANGED <<file_opts, authVars, limiterVars, requestVars,
                   patternVars, envVars, secretVars, viewVars,
                   refVars, concVars>>

\* view_config_file loads the environment of the endpoint for a request
FileRequest ==
    /\ file_phase = "serving"
    /\ \E tokens \in TokensFor(file_disk) :
          Loaded("request",
                 load_environment_files(tokens, file_opts.cache,
                     FileState(file_disk, filecache, env_cache)))
    /\ UNCHANGED <<file_opts, file_phase, authVars, limiterVars, requestVars,
                   patternVars, envVars, secretVars, viewVars,
                   refVars, concVars>>

\* The contents an operator gives an override file while the server runs
PlainContents == {FileWith(<<>>), FileWith(<<"v1">>), FileWith(<<"v2">>)}

\* An override file is written on disk by someone else than the server
WriteFile ==
    /\ file_phase \in {"init", "serving"}
    /\ \E path \in CacheFileSet, content \in PlainContents :
          /\ content # file_disk[path]
          /\ file_disk' = [file_disk EXCEPT ![path] = content]
          /\ file_last' = [NoOp EXCEPT !.op = "write"]
    /\ UNCHANGED <<file_opts, filecache, env_cache, file_first,
                   file_generated, file_phase, authVars, limiterVars,
                   requestVars, patternVars, envVars, secretVars, viewVars,
                   refVars, concVars>>

\* An override file is removed from the disk
DeleteFile ==
    /\ file_phase \in {"init", "serving"}
    /\ \E path \in CacheFileSet :
          /\ file_disk[path].exists
          /\ file_disk' = [file_disk EXCEPT ![path] = FileAbsent]
          /\ file_last' = [NoOp EXCEPT !.op = "delete"]
    /\ UNCHANGED <<file_opts, filecache, env_cache, file_first,
                   file_generated, file_phase, authVars, limiterVars,
                   requestVars, patternVars, envVars, secretVars, viewVars,
                   refVars, concVars>>

\* The server process ends and a new one starts: the caches are new
Restart ==
    /\ file_phase \in {"serving", "crashed"}
    /\ file_phase' = "init"
    /\ filecache' = NoSlots
    /\ env_cache' = NoSlots
    /\ file_first' = NoSlots
    /\ file_last' = [NoOp EXCEPT !.op = "restart"]
    /\ UNCHANGED <<file_opts, file_disk, file_generated, authVars,
                   limiterVars, requestVars, patternVars, envVars,
                   secretVars, viewVars,
                   refVars, concVars>>

FileOptions == [cache : BOOLEAN, check_templates : BOOLEAN]

\* A server that is about to start, over the given files
FilesAtStart(disks) ==
    /\ file_opts \in FileOptions
    /\ file_disk \in disks
    /\ filecache = NoSlots
    /\ env_cache = NoSlots
    /\ file_first = NoSlots
    /\ file_generated = NoSlots
    /\ file_last = NoOp
    /\ file_phase = "init"
    /\ options = ServerOptions
    /\ startup = "pending"
    /\ global_whitelist = NoNetworks
    /\ auth_mapping = EmptyDict
    /\ RequestIdle
    /\ PatternIdle
    /\ EnvIdle
    /\ SecretsIdle
    /\ ViewIdle
    /\ RefIdle
    /\ ConcIdle

InitCache == FilesAtStart([CacheFileSet -> PlainContents \cup {FileAbsent}])

NextCache == PreloadFiles \/ FileRequest \/ WriteFile \/ DeleteFile

SpecCache == InitCache /\ [][NextCache]_vars

\* the data a file of plain values parses to
PlainData(content) ==
    get_single_data(content.entries, [i \in 1..MaxEntries |-> "token1"]).data

\* what a request builds the environment from when it reads the file as
\* it is on disk
FromDisk(path) ==
    IF file_disk[path].exists THEN Slot(PlainData(file_disk[path])) ELSE Miss

\* the step is a request served with the environment cache switched as given
RequestStep(cache) ==
    /\ file_opts.cache = cache
    /\ file_phase = "serving"
    /\ file_last'.op = "request"

\* C17 as stated: with the environment cache enabled, a file that has been
\* loaded is used with the content of its first load at every later
\* request, whatever happens to the file on disk, and a file that has not
\* been loaded is loaded from disk at the first request at which it exists.
C17_FirstLoadUsedEver ==
    [][RequestStep(TRUE) =>
          \A path \in file_last'.reached :
              /\ file_first[path].present
                    => file_last'.used[path] = file_first[path]
              /\ ~file_first[path].present /\ file_disk[path].exists
                    => file_last'.used[path] = FromDisk(path)]_vars

\* the file has been loaded by this process with data that is not None
LoadedBefore(path) ==
    file_first[path].present /\ file_first[path].data # NoData

\* C17, amended: with the environment cache enabled, a file loaded with
\* content other than an empty document is used with that content at every
\* later request at which the file exists on disk, even after its content
\* has changed; a file that is absent at a request contributes nothing to
\* it, whatever was loaded before; and a file that has not been loaded, or
\* only as an empty document, is loaded from disk at the first request at
\* which it exists.
C17_FirstLoadUsedWhilePresent ==
    [][RequestStep(TRUE) =>
          \A path \in file_last'.reached :
              /\ ~file_disk[path].exists => file_last'.used[path] = Miss
              /\ file_disk[path].exists /\ LoadedBefore(path)
                    => file_last'.used[path] = file_first[path]
              /\ file_disk[path].exists /\ ~LoadedBefore(path)
                    => file_last'.used[path] = FromDisk(path)]_vars

\* C17 witness: with the cache enabled a request has used the content a
\* file had at its first load although the file on disk now holds another.
C17_Witness ==
    /\ file_opts.cache
    /\ file_last.op = "request"
    /\ \E path \in file_last.reached :
          /\ file_disk[path].exists
          /\ LoadedBefore(path)
          /\ file_first[path].data # PlainData(file_disk[path])
          /\ file_last.used[path] = file_first[path]
    /\ \E path \in file_last.reached :
          /\ file_disk[path].exists
          /\ file_last.used[path] = FromDisk(path)
          /\ file_last.used[path].data # NoData

\* C18: with the environment cache disabled, a request builds the
\* environment from the override files as they are on disk at that request.
C18_DiskAtRequestTime ==
    [][RequestStep(FALSE) =>
          \A path \in file_last'.reached :
              file_last'.used[path] = FromDisk(path)]_vars

(***************************************************************************)
(* References file#attribute: RelativePathMixin._get_data of scs/yaml.py.  *)
(* Strings are sequences of characters, so that split and the index regex  *)
(* are computed on them; the data of a file is a tree of dicts, lists,     *)
(* strings and integers.                                                   *)
(***************************************************************************)

NoValue ==
    [kind |-> "none", keys |-> <<>>, items |-> <<>>, text |-> <<>>, num |-> 0]
IntValue(n) == [NoValue EXCEPT !.kind = "int", !.num = n]
StrValue(text) == [NoValue EXCEPT !.kind = "str", !.text = text]
ListValue(items) == [NoValue EXCEPT !.kind = "list", !.items = items]
\* a dict holds its keys and its values in the same order
DictValue(keys, items) ==
    [NoValue EXCEPT !.kind = "dict", !.keys = keys, !.items = items]

\* str.split(sep) for a separator of one character
RECURSIVE Split(_, _)
Split(s, sep) ==
    IF \A i \in DOMAIN s : s[i] # sep THEN <<s>>
    ELSE LET i == CHOOSE i \in DOMAIN s :
                      s[i] = sep /\ \A j \in 1..(i - 1) : s[j] # sep
         IN  <<SubSeq(s, 1, i - 1)>> \o Split(SubSeq(s, i + 1, Len(s)), sep)

DigitValues ==
    "0" :> 0 @@ "1" :> 1 @@ "2" :> 2 @@ "3" :> 3 @@ "4" :> 4 @@ "5" :> 5
        @@ "6" :> 6 @@ "7" :> 7 @@ "8" :> 8 @@ "9" :> 9

IsDigit(c) == c \in DOMAIN DigitValues

\* int(match.group(1))
RECURSIVE ToInt(_)
ToInt(digits) ==
    IF digits = <<>> THEN 0
    ELSE 10 * ToInt(SubSeq(digits, 1, Len(digits) - 1))
             + DigitValues[digits[Len(digits)]]

\* the number of digits that follow the first character of the level
DigitRun(level) ==
    CHOOSE k \in 0..Len(level) :
        /\ \A j \in 2..(k + 1) : j <= Len(level) /\ IsDigit(level[j])
        /\ k + 2 > Len(level) \/ ~IsDigit(level[k + 2])

\* index_regex.match(level) with index_regex = r'\[(\d+)\]': match looks
\* for the pattern at the start of the level and lets anything follow it
IndexMatch(level) ==
    /\ Len(level) >= 3
    /\ level[1] = "["
    /\ DigitRun(level) >= 1
    /\ DigitRun(level) + 2 <= Len(level)
    /\ level[DigitRun(level) + 2] = "]"

MatchedIndex(level) == ToInt(SubSeq(level, 2, DigitRun(level) + 1))

Got(value) == [status |-> "ok", value |-> value]
Raised(exception) == [status |-> exception, value |-> NoValue]

\* level_data[index] for an int: list and str index by position, a dict
\* looks the int up as a key (the keys of the data are strings), any other
\* value is not subscriptable
SubscriptIndex(level_data, index) ==
    CASE level_data.kind = "list" ->
            IF index < Len(level_data.items)
            THEN Got(level_data.items[index + 1]) ELSE Raised("IndexError")
      [] level_data.kind = "str" ->
            IF index < Len(level_data.text)
            THEN Got(StrValue(<<level_data.text[index + 1]>>))
            ELSE Raised("IndexError")
      [] level_data.kind = "dict" -> Raised("KeyError")
      [] OTHER -> Raised("TypeError")

\* level_data[level] for a str: a dict looks it up as a key, list and str
\* take no str as index, any other value is not subscriptable
SubscriptKey(level_data, level) ==
    IF level_data.kind = "dict"
    THEN IF \E i \in DOMAIN level_data.keys : level_data.keys[i] = level
         THEN Got(level_data.items[CHOOSE i \in DOMAIN level_data.keys :
                                       level_data.keys[i] = level])
         ELSE Raised("KeyError")
    ELSE Raised("TypeError")

\* the loop over loc_levels: KeyError and IndexError become the ValueError
\* 'could not be resolved', any other exception leaves _get_data as it is
RECURSIVE WalkLevels(_, _, _)
WalkLevels(level_data, loc_levels, i) ==
    IF i > Len(loc_levels) THEN Got(level_data)
    ELSE LET level == loc_levels[i]
             r == IF IndexMatch(level)
                  THEN SubscriptIndex(level_data, MatchedIndex(level))
                  ELSE SubscriptKey(level_data, level)
         IN  IF r.status = "ok" THEN WalkLevels(r.value, loc_levels, i + 1)
             ELSE IF r.status \in {"KeyError", "IndexError"}
             THEN Raised("ValueError")
             ELSE r

\* RelativePathMixin._get_data once load_file has returned file_data, none
\* of whose keys holds a dot; attribute_loc is the part of ref after '#'
get_data(file_data, attribute_loc) ==
    IF attribute_loc = <<>> THEN Got(file_data)
    ELSE WalkLevels(file_data, Split(attribute_loc, "."), 1)

\* Bound of the references: the depth of the data of a file and the number
\* of levels of an attribute location
MaxRefDepth == 3

RefKeys == {<<"a">>, <<"b">>}

\* the values the containers end in: an integer, a string and the list
\* [42, 43]
RefLeaves ==
    {IntValue(42), StrValue(<<"x", "y">>),
     ListValue(<<IntValue(42), IntValue(43)>>)}

\* the values at a depth of the data: the leaves, and lists of one value
\* and dicts of one key around the values of the next depth
RECURSIVE RefValuesAt(_)
RefValuesAt(depth) ==
    IF depth >= MaxRefDepth THEN RefLeaves
    ELSE RefLeaves
            \cup {ListValue(<<v>>) : v \in RefValuesAt(depth + 1)}
            \cup {DictValue(<<k>>, <<v>>) :
                     k \in RefKeys, v \in RefValuesAt(depth + 1)}

\* the levels an attribute location is written with
RefLevels ==
    {<<"a">>, <<"b">>, <<"[", "0", "]">>, <<"[", "2", "]">>,
     <<"b", "[", "0", "]">>, <<"[", "0", "]", "x">>}

\* the attribute locations of up to n levels, joined with dots
RECURSIVE AttributeLocs(_)
AttributeLocs(n) ==
    IF n = 0 THEN {<<>>}
    ELSE AttributeLocs(n - 1)
            \cup {level : level \in RefLevels}
            \cup {loc \o <<".">> \o level :
                     loc \in AttributeLocs(n - 1) \ {<<>>},
                     level \in RefLevels}

InitRef ==
    /\ ref_data \in RefValuesAt(1)
    /\ ref_attr \in AttributeLocs(MaxRefDepth)
    /\ ref_result = <<>>
    /\ options = ServerOptions
    /\ startup = "pending"
    /\ global_whitelist = NoNetworks
    /\ auth_mapping = EmptyDict
    /\ RequestIdle
    /\ PatternIdle
    /\ EnvIdle
    /\ SecretsIdle
    /\ ViewIdle
    /\ FilesIdle
    /\ ConcIdle

\* A tag with the reference is constructed: _get_data resolves it
GetData ==
    /\ ref_result = <<>>
    /\ ref_result' = <<get_data(ref_data, ref_attr)>>
    /\ UNCHANGED <<ref_data, ref_attr, authVars, limiterVars, requestVars,
                   patternVars, envVars, secretVars, viewVars, fileVars,
                   concVars>>

NextRef == GetData

SpecRef == InitRef /\ [][NextRef]_vars

\* the segments of an attribute location as the claim reads a.b[0]: the
\* location is cut at every dot and before every opening bracket
RECURSIVE CutBrackets(_)
CutBrackets(piece) ==
    IF \A i \in 2..Len(piece) : piece[i] # "[" THEN <<piece>>
    ELSE LET i == CHOOSE i \in 2..Len(piece) :
                      piece[i] = "[" /\ \A j \in 2..(i - 1) : piece[j] # "["
         IN  <<SubSeq(piece, 1, i - 1)>>
                 \o CutBrackets(SubSeq(piece, i, Len(piece)))

RECURSIVE Flatten(_)
Flatten(seqs) ==
    IF seqs = <<>> THEN <<>> ELSE Head(seqs) \o Flatten(Tail(seqs))

Segments(attr) ==
    Flatten([i \in DOMAIN Split(attr, ".") |->
                CutBrackets(Split(attr, ".")[i])])

\* the segment is [N]
IsIndexSegment(segment) ==
    /\ Len(segment) >= 3
    /\ segment[1] = "["
    /\ segment[Len(segment)] = "]"
    /\ \A j \in 2..(Len(segment) - 1) : IsDigit(segment[j])

SegmentIndex(segment) == ToInt(SubSeq(segment, 2, Len(segment) - 1))

\* the value the segments lead to, or the reference-resolution error
RECURSIVE Reached(_, _, _)
Reached(value, segments, i) ==
    IF i > Len(segments) THEN Got(value)
    ELSE LET segment == segments[i]
         IN  IF IsIndexSegment(segment)
             THEN IF value.kind = "list"
                       /\ SegmentIndex(segment) < Len(value.items)
                  THEN Reached(value.items[SegmentIndex(segment) + 1],
                               segments, i + 1)
                  ELSE Raised("ValueError")
             ELSE IF value.kind = "dict"
                       /\ \E k \in DOMAIN value.keys : value.keys[k] = segment
                  THEN Reached(value.items[CHOOSE k \in DOMAIN value.keys :
                                               value.keys[k] = segment],
                               segments, i + 1)
                  ELSE Raised("ValueError")

\* C19: resolving file#attr returns the value reached by walking attr
\* segment by segment through the data of the file ([N] indexes a list, any
\* other segment is a key of a map) and raises the reference-resolution
\* error when a segment is missing, an index is out of range or the kind of
\* a segment does not fit the value it is applied to.
C19_WalksSegments ==
    ref_result # <<>> /\ ref_attr # <<>>
        => ref_result[1] = Reached(ref_data, Segments(ref_attr), 1)

(***************************************************************************)
(* Generated secrets: override files that hold generate-secret tags, next  *)
(* to plain values and secret references, loaded by a server that is       *)
(* restarted now and then.                                                 *)
(***************************************************************************)

\* the documents of up to n values
RECURSIVE EntriesUpTo(_)
EntriesUpTo(n) ==
    IF n = 0 THEN {<<>>}
    ELSE EntriesUpTo(n - 1)
            \cup {entries \o <<e>> :
                     entries \in EntriesUpTo(n - 1),
                     e \in {"v1", GenSecretTag, SecretTag}}

TagContents == {FileWith(entries) : entries \in EntriesUpTo(MaxEntries) \ {<<>>}}

\* the root file is absent or holds one value, the file of the endpoint is
\* absent or holds any of the documents
TagDisks ==
    { disk \in [CacheFileSet -> TagContents \cup {FileAbsent}] :
        Len(disk[CacheFiles[1]].entries) <= 1 }

InitFile == FilesAtStart(TagDisks)

NextFile == PreloadFiles \/ FileRequest \/ Restart

SpecFile == InitFile /\ [][NextFile]_vars

HasGenTag(content) ==
    \E i \in DOMAIN content.entries : content.entries[i] = GenSecretTag

\* the step is a load of the environment, at startup or for a request
LoadStep == file_last'.op \in {"preload", "request"} /\ file_last' # file_last

\* what a load of the file as it is on disk after the step returns
Reload(path) ==
    get_single_data(file_disk'[path].entries,
                    [i \in 1..MaxEntries |-> "token1"])

\* after the step the file holds no tag, the generated values stand where
\* the tags stood, and the file loads to the data the step returned
GeneratedInPlace(path) ==
    /\ ~HasGenTag(file_disk'[path])
    /\ \A i \in DOMAIN file_disk[path].entries :
          file_disk[path].entries[i] = GenSecretTag
              => file_disk'[path].entries[i] = file_last'.used[path].data[i]
    /\ Reload(path).error = None
    /\ Reload(path).data = file_last'.used[path].data

\* the property of C20 for the files among paths
GeneratedOnce(paths) ==
    /\ LoadStep =>
          \A path \in paths :
              /\ path \in file_last'.parsed /\ HasGenTag(file_disk[path])
                    => GeneratedInPlace(path)
              /\ path \in file_last'.reached /\ file_generated[path].present
                    => /\ file_last'.used[path] = file_generated[path]
                       /\ path \notin file_last'.wrote
    /\ \A path \in paths :
          ~HasGenTag(file_disk[path]) => file_disk'[path] = file_disk[path]

\* C20: after load_file returns for a file with generate-secret tags, the
\* file on disk holds the generated values in place of the tags and equals
\* the returned data; every later load of the file, from the cache or from
\* disk after a restart, returns the same values and does not rewrite the
\* file; a file without such tags is never rewritten.
C20_GeneratedOnce == [][GeneratedOnce(CacheFileSet)]_vars

\* the files all of whose values are plain or generated
WithoutSecretReferences ==
    { path \in CacheFileSet :
        \A i \in DOMAIN file_disk[path].entries :
            file_disk[path].entries[i] \notin {SecretTag, PythonObjectTag} }

\* The property of C20 holds for the files that hold no secret reference
GeneratedOnceInPlainFiles == [][GeneratedOnce(WithoutSecretReferences)]_vars

(***************************************************************************)
(* The window ids of the rate limiter over the instants of the clock.      *)
(***************************************************************************)

\* the 15-minute bucket an instant lies in
Bucket(t) == <<t.year, t.month, t.day, t.hour, t.minute \div 15>>

\* C29: two instants that lie in different 15-minute buckets get different
\* window ids from _get_window_id.
C29_DistinctWindowIds ==
    \A i, j \in 1..now :
        Bucket(Instants[i]) # Bucket(Instants[j])
            => get_window_id(Instants[i]) # get_window_id(Instants[j])

\* the counts recorded in one bucket are not treated as counts of a later
\* bucket: a request in another bucket than the request before it is not
\* rate limited
CountsStayInBucket ==
    [][(/\ Handled
        /\ InGlobalRanges(last'.ip)
        /\ last.at # 0
        /\ Bucket(Instants[last.at]) # Bucket(Instants[now]))
          => last'.outcome # "RateLimited"]_vars

\* the header is exactly 'Bearer ' followed by the token of a user
ExactBearerToken(headers) ==
    /\ headers.present
    /\ headers.value # <<>>
    /\ Head(headers.value) = "Bearer "
    /\ Tail(headers.value) \in DOMAIN auth_mapping

\* C30: a request that comes to the token check is identified as a user
\* only when its Authorization header is exactly 'Bearer ' followed by the
\* token of that user; with any other header, or none, it ends as
\* Unauthenticated and counts as one failed attempt of its ip.
C30_ExactBearerToken ==
    [][(/\ Handled
        /\ InGlobalRanges(last'.ip)
        /\ last'.outcome # "RateLimited")
          => IF ExactBearerToken(last'.headers)
             THEN last'.outcome # "Unauthenticated"
             ELSE /\ last'.outcome = "Unauthenticated"
                  /\ invalid_auth_attempts'[last'.ip]
                        = CountInWindow(last'.ip) + 1]_vars

(***************************************************************************)
(* The rate limiter under the threads of the server (docker/server.py      *)
(* serves requests from a pool of threads): register_attempt and the       *)
(* property invalid_auth_attempts, one step per read or write of the       *)
(* state the threads share.                                                *)
(***************************************************************************)

Threads == {1, 2}

\* Bound of the threads: the register_attempt calls one thread makes
MaxCalls == 2

\* all attempts come from one ip within one window
AttemptIp == Ip(4, 9)
WindowNow == get_window_id(Instants[1])
\* the id of a window that has passed
WindowBefore == <<0>>

NoLocals == [attempts |-> 0, value |-> 0]

InitLimiter ==
    /\ rl_window \in {WindowNow, WindowBefore}
    /\ rl_attempts = 1
    /\ rl_heap = <<EmptyDict>>
    /\ rl_pc = [t \in Threads |-> "idle"]
    /\ rl_local = [t \in Threads |-> NoLocals]
    /\ rl_done = [t \in Threads |-> 0]
    /\ options = ServerOptions
    /\ startup = "pending"
    /\ global_whitelist = NoNetworks
    /\ auth_mapping = EmptyDict
    /\ RequestIdle
    /\ PatternIdle
    /\ EnvIdle
    /\ SecretsIdle
    /\ ViewIdle
    /\ FilesIdle
    /\ RefIdle
    /\ LoadIdle
    /\ HeapIdle
    /\ FrameIdle

LimiterFrame ==
    UNCHANGED <<authVars, limiterVars, requestVars, patternVars, envVars,
                secretVars, viewVars, fileVars, refVars, loadVars, heapVars,
                frameVars>>

\* the thread goes on at the given position
Goto(t, pc) == rl_pc' = [rl_pc EXCEPT ![t] = pc]

\* check_auth calls register_attempt, which reads the property
CallRegisterAttempt(t) ==
    /\ rl_pc[t] = "idle"
    /\ rl_done[t] < MaxCalls
    /\ Goto(t, "window")
    /\ rl_local' = [rl_local EXCEPT ![t] = NoLocals]
    /\ UNCHANGED <<rl_window, rl_attempts, rl_heap, rl_done>>
    /\ LimiterFrame

\* invalid_auth_attempts: if self._current_window != window_id
CompareWindow(t) ==
    /\ rl_pc[t] = "window"
    /\ Goto(t, IF rl_window # WindowNow THEN "set_window" ELSE "return")
    /\ UNCHANGED <<rl_window, rl_attempts, rl_heap, rl_local, rl_done>>
    /\ LimiterFrame

\* invalid_auth_attempts: self._current_window = window_id
SetWindow(t) ==
    /\ rl_pc[t] = "set_window"
    /\ rl_window' = WindowNow
    /\ Goto(t, "set_attempts")
    /\ UNCHANGED <<rl_attempts, rl_heap, rl_local, rl_done>>
    /\ LimiterFrame

\* invalid_auth_attempts: self._invalid_auth_attempts = {}
SetAttempts(t) ==
    /\ rl_pc[t] = "set_attempts"
    /\ rl_heap' = Append(rl_heap, EmptyDict)
    /\ rl_attempts' = Len(rl_heap) + 1
    /\ Goto(t, "return")
    /\ UNCHANGED <<rl_window, rl_local, rl_done>>
    /\ LimiterFrame

\* invalid_auth_attempts: return self._invalid_auth_attempts
ReturnAttempts(t) ==
    /\ rl_pc[t] = "return"
    /\ rl_local' = [rl_local EXCEPT ![t].attempts = rl_attempts]
    /\ Goto(t, "check")
    /\ UNCHANGED <<rl_window, rl_attempts, rl_heap, rl_done>>
    /\ LimiterFrame

\* register_attempt: if ip not in invalid_auth_attempts
CheckIp(t) ==
    /\ rl_pc[t] = "check"
    /\ Goto(t, IF AttemptIp \notin DOMAIN rl_heap[rl_local[t].attempts]
               THEN "insert" ELSE "load")
    /\ UNCHANGED <<rl_window, rl_attempts, rl_heap, rl_local, rl_done>>
    /\ LimiterFrame

\* register_attempt: invalid_auth_attempts[ip] = 0
InsertZero(t) ==
    /\ rl_pc[t] = "insert"
    /\ rl_heap' = [rl_heap EXCEPT ![rl_local[t].attempts] = AttemptIp :> 0]
    /\ Goto(t, "load")
    /\ UNCHANGED <<rl_window, rl_attempts, rl_local, rl_done>>
    /\ LimiterFrame

\* register_attempt: invalid_auth_attempts[ip] += 1, the read of the item
LoadCount(t) ==
    /\ rl_pc[t] = "load"
    /\ rl_local' =
          [rl_local EXCEPT
              ![t].value = rl_heap[rl_local[t].attempts][AttemptIp]]
    /\ Goto(t, "store")
    /\ UNCHANGED <<rl_window, rl_attempts, rl_heap, rl_done>>
    /\ LimiterFrame

\* register_attempt: invalid_auth_attempts[ip] += 1, the write of the item,
\* after which the call returns
StoreCount(t) ==
    /\ rl_pc[t] = "store"
    /\ rl_heap' = [rl_heap EXCEPT ![rl_local[t].attempts] =
                      AttemptIp :> (rl_local[t].value + 1)]
    /\ rl_done' = [rl_done EXCEPT ![t] = @ + 1]
    /\ Goto(t, "idle")
    /\ UNCHANGED <<rl_window, rl_attempts, rl_local>>
    /\ LimiterFrame

NextLimiter ==
    \E t \in Threads :
        \/ CallRegisterAttempt(t)
        \/ CompareWindow(t)
        \/ SetWindow(t)
        \/ SetAttempts(t)
        \/ ReturnAttempts(t)
        \/ CheckIp(t)
        \/ InsertZero(t)
        \/ LoadCount(t)
        \/ StoreCount(t)

SpecLimiter == InitLimiter /\ [][NextLimiter]_vars

\* the count a read of the limiter gives for the ip
CountRead ==
    IF rl_window # WindowNow THEN 0
    ELSE DictGet(rl_heap[rl_attempts], AttemptIp, 0)

RECURSIVE SumOver(_, _)
SumOver(f, S) ==
    IF S = {} THEN 0
    ELSE LET x == CHOOSE x \in S : TRUE IN f[x] + SumOver(f, S \ {x})

\* C21: under any interleaving of the threads no increment is lost: while
\* no register_attempt call is under way, the count read for the ip is the
\* number of the calls that have completed.
C21_NoLostIncrement ==
    (\A t \in Threads : rl_pc[t] = "idle")
        => CountRead = SumOver(rl_done, Threads)

(***************************************************************************)
(* yaml.load_file under the threads of the server: two calls on one file,  *)
(* one step per access to the cache or to the file.                        *)
(***************************************************************************)

LoadPath == EndpointEnvFile

\* what the loader of a thread has parsed; nothing before it has
NotParsed == [error |-> None, data |-> NoData, resave |-> FALSE]

\* load_file has not returned
NoResult == [returned |-> FALSE, error |-> None, data |-> NoData]
Returned(error, data) == [returned |-> TRUE, error |-> error, data |-> data]

InitLoad ==
    /\ file_disk \in [{LoadPath} -> TagContents]
    /\ filecache = [path \in {LoadPath} |-> Miss]
    /\ ld_pc = [t \in Threads |-> "idle"]
    /\ ld_local = [t \in Threads |-> NotParsed]
    /\ ld_result = [t \in Threads |-> NoResult]
    /\ file_opts = EmptyDict
    /\ env_cache = EmptyDict
    /\ file_first = EmptyDict
    /\ file_generated = EmptyDict
    /\ file_last = EmptyDict
    /\ file_phase = "idle"
    /\ options = ServerOptions
    /\ startup = "pending"
    /\ global_whitelist = NoNetworks
    /\ auth_mapping = EmptyDict
    /\ RequestIdle
    /\ PatternIdle
    /\ EnvIdle
    /\ SecretsIdle
    /\ ViewIdle
    /\ RefIdle
    /\ LimiterIdle
    /\ HeapIdle
    /\ FrameIdle

LoadFrame ==
    UNCHANGED <<file_opts, env_cache, file_first, file_generated, file_last,
                file_phase, authVars, limiterVars, requestVars, patternVars,
                envVars, secretVars, viewVars, refVars, limVars, heapVars,
                frameVars>>

LoadGoto(t, pc) == ld_pc' = [ld_pc EXCEPT ![t] = pc]

\* load_file is called for the file
CallLoadFile(t) ==
    /\ ld_pc[t] = "idle"
    /\ LoadGoto(t, "lookup")
    /\ UNCHANGED <<file_disk, filecache, ld_local, ld_result>>
    /\ LoadFrame

\* load_file: if (data := filecache.get_file(path)) is not None: return data
LookupCache(t) ==
    /\ ld_pc[t] = "lookup"
    /\ IF get_file(filecache, LoadPath) # NoData
       THEN /\ ld_result' = [ld_result EXCEPT
                                ![t] = Returned(None,
                                           get_file(filecache, LoadPath))]
            /\ LoadGoto(t, "done")
       ELSE /\ LoadGoto(t, "parse")
            /\ UNCHANGED ld_result
    /\ UNCHANGED <<file_disk, filecache, ld_local>>
    /\ LoadFrame

\* load_file: the file is opened and read, get_single_data() constructs
\* its nodes, the generator returning tokens for the tags; an exception
\* leaves load_file
ParseFile(t) ==
    /\ ld_pc[t] = "parse"
    /\ \E tokens \in [1..MaxEntries -> Tokens] :
          /\ \A i \in 1..MaxEntries :
                tokens[i] # "token1"
                    => /\ i \in DOMAIN file_disk[LoadPath].entries
                       /\ file_disk[LoadPath].entries[i] = GenSecretTag
          /\ LET loaded == get_single_data(file_disk[LoadPath].entries, tokens)
             IN  /\ ld_local' = [ld_local EXCEPT ![t] = loaded]
                 /\ IF loaded.error # None
                    THEN /\ ld_result' =
                               [ld_result EXCEPT
                                   ![t] = Returned(loaded.error, NoData)]
                         /\ LoadGoto(t, "done")
                    ELSE /\ LoadGoto(t, IF loaded.resave THEN "open"
                                        ELSE "add")
                         /\ UNCHANGED ld_result
    /\ UNCHANGED <<file_disk, filecache>>
    /\ LoadFrame

\* load_file: open(path, 'w') empties the file
OpenForWriting(t) ==
    /\ ld_pc[t] = "open"
    /\ file_disk' = [file_disk EXCEPT ![LoadPath] = FileWith(<<>>)]
    /\ LoadGoto(t, "dump")
    /\ UNCHANGED <<filecache, ld_local, ld_result>>
    /\ LoadFrame

\* load_file: dump(data, yamlfile, sort_keys=False) and the file is closed
DumpData(t) ==
    /\ ld_pc[t] = "dump"
    /\ file_disk' = [file_disk EXCEPT
                        ![LoadPath] = FileWith(dump(ld_local[t].data))]
    /\ LoadGoto(t, "add")
    /\ UNCHANGED <<filecache, ld_local, ld_result>>
    /\ LoadFrame

\* load_file: filecache.add_file(path, data); return data
AddAndReturn(t) ==
    /\ ld_pc[t] = "add"
    /\ filecache' = add_file(filecache, LoadPath, ld_local[t].data)
    /\ ld_result' = [ld_result EXCEPT ![t] = Returned(None, ld_local[t].data)]
    /\ LoadGoto(t, "done")
    /\ UNCHANGED <<file_disk, ld_local>>
    /\ LoadFrame

NextLoad ==
    \E t \in Threads :
        \/ CallLoadFile(t)
        \/ LookupCache(t)
        \/ ParseFile(t)
        \/ OpenForWriting(t)
        \/ DumpData(t)
        \/ AddAndReturn(t)

SpecLoad == InitLoad /\ [][NextLoad]_vars

\* C22: under any interleaving of two load_file calls on a file with a
\* generate-secret tag at most one value is generated for the tag: once
\* both calls have returned, both have returned the same data, and it is
\* the data on disk and in the cache.
C22_OneValueGenerated ==
    (/\ \A t \in Threads : ld_result[t].returned
     /\ \E t \in Threads : ld_local[t].resave)
        => \A t \in Threads :
              /\ ld_result[t].error = None
              /\ ld_result[t].data = ld_result[1].data
              /\ file_disk[LoadPath].entries = dump(ld_result[t].data)
              /\ get_file(filecache, LoadPath) = ld_result[t].data

\* two calls have returned different values generated for one tag
TwoValuesGenerated ==
    /\ \A t \in Threads : ld_result[t].returned /\ ld_result[t].error = None
    /\ ld_result[1].data # ld_result[2].data

\* C22, seen from the callers alone: no two calls return different data
C22_CallersAgree == ~TwoValuesGenerated

(***************************************************************************)
(* The two caches with the identity of objects: what a cache stores, what  *)
(* a caller holds and what a caller changes in place are objects on a      *)
(* heap, a document being a dict whose one value is a dict of one scalar.  *)
(***************************************************************************)

MaxDocs == 4

NoObject == 0

CacheNames == {"filecache", "env_cache"}

\* a scalar of a document: a secret, its serialized value, anything else
Scalars == {"SCSSecret", "value"}

\* the objects of a document of the given scalars, appended to the heap;
\* the document is the last one
NewDocument(heap, top, inner) ==
    Append(Append(heap, [val |-> inner, child |-> NoObject]),
           [val |-> top, child |-> Len(heap) + 1])

\* the data of an object, through the objects it refers to
Contents(heap, obj) ==
    IF heap[obj].child = NoObject THEN <<heap[obj].val>>
    ELSE <<heap[obj].val, heap[heap[obj].child].val>>

\* copy.copy: a new dict that refers to the same values (the alternative
\* to deepcopy below)
shallow_copy(heap, obj) ==
    LET h == Append(heap, heap[obj])
    IN  [heap |-> h, obj |-> Len(h)]

\* copy.deepcopy: new objects all the way down
deepcopy(heap, obj) ==
    LET h == NewDocument(heap, heap[obj].val, heap[heap[obj].child].val)
    IN  [heap |-> h, obj |-> Len(h)]

Documents(heap) == Len(heap) \div 2

InitHeap ==
    /\ obj_heap = <<>>
    /\ obj_cache = [c \in CacheNames |-> [path \in {LoadPath} |-> NoObject]]
    /\ obj_held = EmptyDict
    /\ obj_added = [c \in CacheNames |-> [path \in {LoadPath} |-> NoData]]
    /\ obj_mutated = {}
    /\ options = ServerOptions
    /\ startup = "pending"
    /\ global_whitelist = NoNetworks
    /\ auth_mapping = EmptyDict
    /\ RequestIdle
    /\ PatternIdle
    /\ EnvIdle
    /\ SecretsIdle
    /\ ViewIdle
    /\ FilesIdle
    /\ RefIdle
    /\ LimiterIdle
    /\ LoadIdle
    /\ FrameIdle

HeapFrame ==
    UNCHANGED <<authVars, limiterVars, requestVars, patternVars, envVars,
                secretVars, viewVars, fileVars, refVars, limVars, loadVars,
                frameVars>>

Hold(held, obj, origin) ==
    [o \in DOMAIN held \cup {obj} |->
        (IF o \in DOMAIN held THEN held[o] ELSE {})
            \cup (IF o = obj THEN {origin} ELSE {})]

\* load_file on a miss: the loader builds the data, add_file stores a
\* deep copy of it and the data itself is returned
LoadFileMiss(path) ==
    /\ obj_cache["filecache"][path] = NoObject
    /\ Documents(obj_heap) + 2 <= MaxDocs
    /\ \E top \in Scalars, inner \in Scalars :
          LET parsed == NewDocument(obj_heap, top, inner)
              copied == deepcopy(parsed, Len(parsed))
          IN  /\ obj_heap' = copied.heap
              /\ obj_cache' = [obj_cache EXCEPT
                                  !["filecache"][path] = copied.obj]
              /\ obj_added' = [obj_added EXCEPT
                                  !["filecache"][path] =
                                      Contents(parsed, Len(parsed))]
              /\ obj_held' = Hold(obj_held, Len(parsed), "load_file")
    /\ UNCHANGED obj_mutated
    /\ HeapFrame

\* _ParsedFileCache.get_file and EnvironmentFileCache.get on a hit: a deep
\* copy of what is stored
CacheGet(c, path) ==
    /\ obj_cache[c][path] # NoObject
    /\ Documents(obj_heap) + 1 <= MaxDocs
    /\ LET copied == deepcopy(obj_heap, obj_cache[c][path])
       IN  /\ obj_heap' = copied.heap
           /\ obj_held' = Hold(obj_held, copied.obj, "get")
    /\ UNCHANGED <<obj_cache, obj_added, obj_mutated>>
    /\ HeapFrame

\* EnvironmentFileCache.add, called by _load_env_file with the data that
\* load_file returned: a deep copy of it is stored
EnvCacheAddObject(path, obj) ==
    /\ obj \in DOMAIN obj_held
    /\ Documents(obj_heap) + 1 <= MaxDocs
    /\ LET copied == deepcopy(obj_heap, obj)
       IN  /\ obj_heap' = copied.heap
           /\ obj_cache' = [obj_cache EXCEPT !["env_cache"][path] = copied.obj]
    /\ obj_added' = [obj_added EXCEPT
                        !["env_cache"][path] = Contents(obj_heap, obj)]
    /\ obj_held' = Hold(obj_held, obj, "add")
    /\ UNCHANGED obj_mutated
    /\ HeapFrame

\* a caller changes data it holds in place, as serialize_secrets does
\* with data[key] = secret.value: at the top of the document or in the
\* dict inside it
MutateInPlace(obj, inside, scalar) ==
    /\ obj \in DOMAIN obj_held
    /\ LET target == IF inside THEN obj_heap[obj].child ELSE obj
       IN  /\ obj_heap[target].val # scalar
           /\ obj_heap' = [obj_heap EXCEPT ![target].val = scalar]
    /\ obj_mutated' = obj_mutated \cup {obj}
    /\ UNCHANGED <<obj_cache, obj_held, obj_added>>
    /\ HeapFrame

NextHeap ==
    \/ LoadFileMiss(LoadPath)
    \/ \E c \in CacheNames : CacheGet(c, LoadPath)
    \/ \E obj \in 1..(2 * MaxDocs) : EnvCacheAddObject(LoadPath, obj)
    \/ \E obj \in 1..(2 * MaxDocs), inside \in BOOLEAN, scalar \in Scalars :
          MutateInPlace(obj, inside, scalar)

SpecHeap == InitHeap /\ [][NextHeap]_vars

\* C23: whatever is added, got and changed in place, the value a cache
\* returns for a path is the data as it was when it was added; for the
\* parsed-file cache and for the environment file cache.
C23_CacheReturnsDataAsAdded ==
    \A c \in CacheNames :
        obj_cache[c][LoadPath] # NoObject
            => Contents(obj_heap, obj_cache[c][LoadPath])
                   = obj_added[c][LoadPath]

\* C23 witness: each cache holds data, and the object load_file returned
\* on the miss, the object passed to add and an object returned by a get
\* have been changed in place since
C23_Witness ==
    /\ \A c \in CacheNames : obj_cache[c][LoadPath] # NoObject
    /\ \A origin \in {"load_file", "add", "get"} :
          \E obj \in obj_mutated : origin \in obj_held[obj]

(***************************************************************************)
(* The search order of the override files, for endpoints of up to          *)
(* MaxSegments segments.                                                   *)
(***************************************************************************)

MaxSegments == 3

SegmentNames == {"a", "b"}

\* '/'.join(segments)
RECURSIVE JoinPath(_)
JoinPath(segments) ==
    IF Len(segments) = 1 THEN <<segments[1]>>
    ELSE <<segments[1], "/">> \o JoinPath(Tail(segments))

HierTargets ==
    {JoinPath(segments) :
        segments \in UNION {[1..n -> SegmentNames] : n \in 1..MaxSegments}}

HierFileData ==
    { "template" :> ("context" :> Dict("x" :> "A" @@ "y" :> "A")),
      "template" :> ("context" :> Dict("x" :> "B")),
      "response" :> ("status" :> Scalar("201"))
          @@ "template" :> ("context" :> Dict("y" :> "B")) }

InitHier ==
    /\ env_target \in HierTargets
    /\ \E present \in SUBSET {NormPath(get_env_file_hierarchy(env_target)[i]) :
                                 i \in 1..(MaxSegments + 1)
                                          \cap DOMAIN get_env_file_hierarchy(
                                                          env_target)} :
          env_files \in [present -> HierFileData]
    /\ env_status = "pending"
    /\ combined_env = EmptyDict
    /\ options = ServerOptions
    /\ startup = "pending"
    /\ global_whitelist = NoNetworks
    /\ auth_mapping = EmptyDict
    /\ RequestIdle
    /\ PatternIdle
    /\ ExtIdle

SpecHier == InitHier /\ [][NextEnv]_vars

\* the segments s1, ..., sn of the endpoint
TargetSegments == SelectSeq(env_target, LAMBDA token : token # "/")

\* the file of position i of the order that C24 states, as the components
\* of its path: the root file, the file of the directory s1/.../s(i-1),
\* and last the file next to the endpoint
Candidate(i) ==
    LET n == Len(TargetSegments)
    IN  IF i <= n
        THEN [j \in 1..i |->
                 IF j < i THEN <<TargetSegments[j]>> ELSE <<"scs-env.yaml">>]
        ELSE [j \in 1..n |->
                 IF j < n THEN <<TargetSegments[j]>>
                 ELSE <<TargetSegments[n], ".scs-env.yaml">>]

\* the existing files of positions i and later merged in that order, a
\* missing one skipped
RECURSIVE MergeExisting(_, _)
MergeExisting(combined, i) ==
    IF i > Len(TargetSegments) + 1 THEN combined
    ELSE MergeExisting(IF Candidate(i) \in DOMAIN env_files
                       THEN MergeFile(combined, env_files[Candidate(i)])
                       ELSE combined,
                       i + 1)

\* C24: for an endpoint of segments s1/.../sn the hierarchy has exactly
\* n+1 candidates: the root scs-env.yaml, the scs-env.yaml of each
\* directory s1, s1/s2, ..., s1/.../s(n-1) from shallowest to deepest, and
\* <path>.scs-env.yaml; the environment is the existing ones merged in
\* that order, a missing one contributing nothing.
C24_HierarchyOrder ==
    /\ Len(Hierarchy) = Len(TargetSegments) + 1
    /\ \A i \in DOMAIN Hierarchy : NormPath(Hierarchy[i]) = Candidate(i)
    /\ env_status # "pending"
          => /\ env_status = "ok"
             /\ combined_env = MergeExisting(ENVIRONMENT_DEFAULTS, 1)

\* C24 witness: an endpoint three directories deep is resolved, a file in
\* the middle of its order is missing and later ones exist and show in
\* the result
C24_Witness ==
    /\ env_status = "ok"
    /\ Len(TargetSegments) = 3
    /\ Candidate(1) \in DOMAIN env_files
    /\ Candidate(2) \notin DOMAIN env_files
    /\ Candidate(3) \in DOMAIN env_files
    /\ Candidate(4) \in DOMAIN env_files
    /\ env_files[Candidate(1)]["template"]["context"].items["x"] = "A"
    /\ env_files[Candidate(3)]["template"]["context"].items["x"] = "B"
    /\ "response" \in DOMAIN env_files[Candidate(4)]
    /\ combined_env["template"]["context"].items = ("x" :> "B" @@ "y" :> "B")

(***************************************************************************)
(* The depth of the merge: override files whose map-valued keys hold       *)
(* scalars and maps.                                                       *)
(***************************************************************************)

MergeFileData ==
    { EmptyDict,
      "template" :> ("context" :>
            Dict("db" :> Dict("host" :> "A" @@ "port" :> "A")
                 @@ "x" :> Scalar("A"))),
      "template" :> ("context" :> Dict("db" :> Dict("host" :> "B"))),
      "template" :> ("context" :> Dict("x" :> Scalar("B"))
                     @@ "enabled" :> Scalar("false")),
      "template" :> ("context" :> Dict("db" :> Scalar("B"))),
      "request" :> ("methods" :> Scalar("[GET, POST]"))
          @@ "response" :> ("status" :> Scalar("404")) }

InitMerge ==
    /\ env_target \in EnvTargets
    /\ \E present \in SUBSET {NormPath(get_env_file_hierarchy(env_target)[i]) :
                                 i \in DOMAIN get_env_file_hierarchy(
                                                 env_target)} :
          env_files \in [present -> MergeFileData]
    /\ env_status = "pending"
    /\ combined_env = EmptyDict
    /\ options = ServerOptions
    /\ startup = "pending"
    /\ global_whitelist = NoNetworks
    /\ auth_mapping = EmptyDict
    /\ RequestIdle
    /\ PatternIdle
    /\ ExtIdle

SpecMerge == InitMerge /\ [][NextEnv]_vars

\* the environment accumulated before the last file of the search order,
\* and the data of that file
Accumulated ==
    MergeFiles(ENVIRONMENT_DEFAULTS,
               SubSeq(Hierarchy, 1, Len(Hierarchy) - 1), 1)

Override == load_env_file(Hierarchy[Len(Hierarchy)])

\* C25: the merge is one level deep.  A second-level key that the
\* override sets to a map has the items of that map merged into the
\* accumulated map, items absent from the override being kept; an item
\* that is itself a map, and a scalar or list at the second level,
\* replaces the accumulated value as a whole; a section is never replaced
\* as a whole: its keys that the override does not set are kept.
C25_MergeOneLevelDeep ==
    env_status = "ok" =>
        \A root \in DOMAIN Accumulated :
            /\ root \in DOMAIN combined_env
            /\ \A child \in DOMAIN Accumulated[root] :
                  /\ child \in DOMAIN combined_env[root]
                  /\ (root \notin DOMAIN Override
                        \/ child \notin DOMAIN Override[root])
                        => combined_env[root][child] = Accumulated[root][child]
            /\ root \in DOMAIN Override
                  => \A child \in DOMAIN Override[root] :
                        LET old == Accumulated[root][child]
                            new == Override[root][child]
                            merged == combined_env[root][child]
                        IN  IF ~new.isdict THEN merged = new
                            ELSE /\ merged.isdict
                                 /\ DOMAIN merged.items
                                       = DOMAIN old.items \cup DOMAIN new.items
                                 /\ \A k \in DOMAIN new.items :
                                       merged.items[k] = new.items[k]
                                 /\ \A k \in DOMAIN old.items
                                                \ DOMAIN new.items :
                                       merged.items[k] = old.items[k]

\* C25 witness: the override sets context.db to a map of one key where the
\* accumulated context.db is a map of two keys and context.x is set: db is
\* replaced as a whole, x is kept, and so is the rest of the section
C25_Witness ==
    /\ env_status = "ok"
    /\ Accumulated["template"]["context"].items
          = ("db" :> Dict("host" :> "A" @@ "port" :> "A") @@ "x" :> Scalar("A"))
    /\ Accumulated["template"]["enabled"] = Scalar("false")
    /\ Override = ("template" :> ("context" :> Dict("db" :> Dict("host" :> "B"))))
    /\ combined_env["template"]["context"].items
          = ("db" :> Dict("host" :> "B") @@ "x" :> Scalar("A"))
    /\ combined_env["template"]["enabled"] = Scalar("false")

(***************************************************************************)
(* Reference tags that load other files: the secret tag loads with the     *)
(* loader of secret files, the common tag with the loader of env files,    *)
(* and both go through the one cache of parsed files.                      *)
(***************************************************************************)

MaxTags == 2

PlainTag == "plain"
CommonTag == "!scs-common"

YamlNode(tag, value) == [tag |-> tag, value |-> value]

EnvFileName == "env.yaml"
TagFiles == {EnvFileName, "x.yaml", "y.yaml"}

\* the tags each loader class has a constructor for: _configure_env_loader
\* adds them to the env-file loader, nothing adds one to the secret-file
\* loader
Constructors(loader) ==
    IF loader = "SCSEnvFileLoader" THEN {SecretTag, CommonTag} ELSE {}

\* the loader class attribute of the constructor of a tag
LoaderOf(tag) ==
    IF tag = SecretTag THEN "SCSSecretFileLoader" ELSE "SCSEnvFileLoader"

TagError(error, cache) == [error |-> error, data |-> <<>>, cache |-> cache]
TagData(data, cache) == [error |-> None, data |-> data, cache |-> cache]

RECURSIVE load_tagged_file(_, _, _)
RECURSIVE construct_nodes(_, _, _, _, _)
RECURSIVE construct_tag(_, _, _)

\* the constructor of one node: SCSSecretConstructor.construct wraps what
\* _get_data returns, SCSCommonConstructor.construct returns it; the
\* reference is to the first item of the file ('<file>#[0]')
construct_tag(node, loader, cache) ==
    IF node.tag = PlainTag THEN TagData(ScalarNode(node.value), cache)
    ELSE IF node.tag \notin Constructors(loader)
    THEN TagError("ConstructorError", cache)
    ELSE LET file == load_tagged_file(node.value, LoaderOf(node.tag), cache)
             referenced == file.data[1]
         IN  IF file.error # None THEN file
             ELSE IF node.tag = SecretTag
             THEN TagData(SCSSecret(node.value, referenced), file.cache)
             ELSE TagData(referenced, file.cache)

\* get_single_data() over the nodes of the file, in document order
construct_nodes(path, i, loader, cache, data) ==
    IF i > Len(file_disk[path]) THEN TagData(data, cache)
    ELSE LET item == construct_tag(file_disk[path][i], loader, cache)
         IN  IF item.error # None THEN item
             ELSE construct_nodes(path, i + 1, loader, item.cache,
                                  Append(data, item.data))

\* yaml.load_file with a loader class: the cache is asked by path alone
load_tagged_file(path, loader, cache) ==
    IF get_file(cache, path) # NoData
    THEN TagData(get_file(cache, path), cache)
    ELSE LET parsed == construct_nodes(path, 1, loader, cache, <<>>)
         IN  IF parsed.error # None THEN parsed
             ELSE TagData(parsed.data, add_file(parsed.cache, path, parsed.data))

RefsTo(files) ==
    {YamlNode(tag, file) : tag \in {SecretTag, CommonTag}, file \in files}

PlainNodes == {YamlNode(PlainTag, "pw")}

InitTags ==
    /\ \E env \in UNION {[1..n -> PlainNodes \cup RefsTo({"x.yaml", "y.yaml"})] :
                            n \in 1..MaxTags},
          x \in PlainNodes \cup RefsTo({"y.yaml"}),
          y \in PlainNodes :
          file_disk = [path \in TagFiles |->
                          CASE path = EnvFileName -> env
                            [] path = "x.yaml" -> <<x>>
                            [] OTHER -> <<y>>]
    /\ filecache = [path \in TagFiles |-> Miss]
    /\ file_last = EmptyDict
    /\ file_phase = "idle"
    /\ file_opts = EmptyDict
    /\ env_cache = EmptyDict
    /\ file_first = EmptyDict
    /\ file_generated = EmptyDict
    /\ options = ServerOptions
    /\ startup = "pending"
    /\ global_whitelist = NoNetworks
    /\ auth_mapping = EmptyDict
    /\ RequestIdle
    /\ PatternIdle
    /\ EnvIdle
    /\ SecretsIdle
    /\ ViewIdle
    /\ RefIdle
    /\ ConcIdle

\* the env file is loaded, its tags resolved
ResolveTags ==
    /\ file_phase = "idle"
    /\ LET loaded == load_tagged_file(EnvFileName, "SCSEnvFileLoader",
                                      filecache)
       IN  /\ file_last' = [error |-> loaded.error, data |-> loaded.data]
           /\ filecache' = loaded.cache
    /\ file_phase' = "loaded"
    /\ UNCHANGED <<file_disk, file_opts, env_cache, file_first, file_generated,
                   authVars, limiterVars, requestVars, patternVars, envVars,
                   secretVars, viewVars, refVars, concVars>>

NextTags == ResolveTags

SpecTags == InitTags /\ [][NextTags]_vars

Resolved == file_phase = "loaded" /\ file_last.error = None

\* C26: resolving a secret tag never produces a Secret whose value is
\* itself a Secret: a referenced value that is a Secret already is
\* returned as it is, any other is wrapped once, with the reference of the
\* tag as id.
C26_NoSecretInSecret ==
    Resolved =>
        \A i \in DOMAIN file_last.data :
            IsSecret(file_last.data[i])
                => ~IsSecret(SecretValue(file_last.data[i]))

\* the part of C26 that holds: what a secret tag resolves to is a Secret
\* with the reference of the tag as id
SecretTagWraps ==
    Resolved =>
        \A i \in DOMAIN file_last.data :
            file_disk[EnvFileName][i].tag = SecretTag
                => /\ IsSecret(file_last.data[i])
                   /\ file_last.data[i].id = file_disk[EnvFileName][i].value

(***************************************************************************)
(* The validation of key names: files whose keys are names, names with a   *)
(* dot, and integers.                                                      *)
(***************************************************************************)

\* a key that YAML reads as an integer ('7: x')
IntKey == <<"int(7)">>

DotsError == "ValueError: names with dots"
NotIterable == "TypeError: argument of type 'int' is not iterable"

\* RelativePathMixin._contains_keys_with_dots: the items of a dict in
\* their order, the key before the value it holds, then the items of a
\* list; '.' in key raises for a key that is no str
RECURSIVE contains_keys_with_dots(_)
RECURSIVE ContainsFrom(_, _)
ContainsFrom(data, i) ==
    IF i > Len(data.items) THEN "False"
    ELSE IF data.kind = "dict" /\ data.keys[i] = IntKey THEN NotIterable
    ELSE IF data.kind = "dict" /\ \E j \in DOMAIN data.keys[i] :
                                     data.keys[i][j] = "."
    THEN "True"
    ELSE LET inner == contains_keys_with_dots(data.items[i])
         IN  IF inner # "False" THEN inner ELSE ContainsFrom(data, i + 1)

contains_keys_with_dots(data) ==
    IF data.kind \in {"dict", "list"} THEN ContainsFrom(data, 1) ELSE "False"

\* RelativePathMixin._get_data once load_file has returned file_data: the
\* validation, then the walk
get_data_validated(file_data, attribute_loc, validate_dots) ==
    LET found == IF validate_dots THEN contains_keys_with_dots(file_data)
                 ELSE "False"
    IN  IF found = "True" THEN Raised(DotsError)
        ELSE IF found = "False" THEN get_data(file_data, attribute_loc)
        ELSE Raised(found)

DotKeys == {<<"a">>, <<"a", ".", "b">>, IntKey}

DotLeaves == {IntValue(42), StrValue(<<"x", ".", "y">>)}

RECURSIVE DotValuesAt(_)
DotValuesAt(depth) ==
    IF depth >= MaxRefDepth THEN DotLeaves
    ELSE DotLeaves
            \cup {ListValue(<<v>>) : v \in DotValuesAt(depth + 1)}
            \cup {DictValue(<<k>>, <<v>>) :
                     k \in DotKeys, v \in DotValuesAt(depth + 1)}

DotLocs ==
    {<<>>, <<"a">>, <<"a", ".", "b">>, <<"a", ".", "a">>, <<"[", "0", "]">>,
     <<"[", "0", "]", ".", "a">>}

InitDots ==
    /\ ref_data \in DotValuesAt(1)
    /\ ref_attr \in DotLocs
    /\ ref_result = <<>>
    /\ file_opts \in [validate_dots : BOOLEAN]
    /\ file_disk = EmptyDict
    /\ filecache = EmptyDict
    /\ env_cache = EmptyDict
    /\ file_first = EmptyDict
    /\ file_generated = EmptyDict
    /\ file_last = EmptyDict
    /\ file_phase = "idle"
    /\ options = ServerOptions
    /\ startup = "pending"
    /\ global_whitelist = NoNetworks
    /\ auth_mapping = EmptyDict
    /\ RequestIdle
    /\ PatternIdle
    /\ EnvIdle
    /\ SecretsIdle
    /\ ViewIdle
    /\ ConcIdle

\* a constructor resolves the reference
GetValidatedData ==
    /\ ref_result = <<>>
    /\ ref_result' = <<get_data_validated(ref_data, ref_attr,
                                          file_opts.validate_dots)>>
    /\ UNCHANGED <<ref_data, ref_attr, authVars, limiterVars, requestVars,
                   patternVars, envVars, secretVars, viewVars, fileVars,
                   concVars>>

NextDots == GetValidatedData

SpecDots == InitDots /\ [][NextDots]_vars

\* the keys of the maps of the data, at any depth, through maps and lists
RECURSIVE AllKeys(_)
AllKeys(data) ==
    IF data.kind \notin {"dict", "list"} THEN {}
    ELSE (IF data.kind = "dict" THEN {data.keys[i] : i \in DOMAIN data.keys}
          ELSE {})
            \cup UNION {AllKeys(data.items[i]) : i \in DOMAIN data.items}

HasDotKey(data) ==
    \E key \in AllKeys(data) : \E j \in DOMAIN key : key[j] = "."

\* the reference failed in the validation of the keys, before the walk
FailedInValidation ==
    ref_result # <<>> /\ ref_result[1].status \in {DotsError, NotIterable}

\* C27: with the validation enabled, resolving a reference to a file fails
\* in the validation, before the attribute path is walked, if and only if
\* some key of a map at any depth of the file, through maps and lists,
\* contains a dot; with the validation disabled no reference fails there.
C27_FailsIffDotInKey ==
    ref_result # <<>>
        => (FailedInValidation
               <=> file_opts.validate_dots /\ HasDotKey(ref_data))

\* C27 for files all of whose keys are strings
C27_StringKeys ==
    (ref_result # <<>> /\ IntKey \notin AllKeys(ref_data))
        => /\ FailedInValidation
                 <=> file_opts.validate_dots /\ HasDotKey(ref_data)
           /\ FailedInValidation => ref_result[1].status = DotsError

\* a file with a dot in a key of a map inside a list is refused, whatever
\* the attribute path
DotKeyRefused ==
    /\ ref_result # <<>>
    /\ file_opts.validate_dots
    /\ ref_data = ListValue(<<DictValue(<<<<"a", ".", "b">>>>,
                                        <<IntValue(42)>>)>>)
    /\ ref_attr = <<"[", "0", "]">>
    /\ ref_result[1].status = DotsError

(***************************************************************************)
(* What requests leave alone: the state built at startup, and the objects  *)
(* of ENVIRONMENT_DEFAULTS, which every request copies and then changes    *)
(* in place.  The environment is a dict (template.enabled as its scalar)   *)
(* that holds one dict (template.context).                                 *)
(***************************************************************************)

MaxServed == 2

\* _validate_env_file({}): the objects of the defaults, the dict last
DefaultsHeap == NewDocument(<<>>, "true", "{}")
DefaultsObject == Len(DefaultsHeap)

\* what the override files of the endpoint set: nothing, the context, or
\* the context and template.enabled
Unset == "unset"
FrameFileData ==
    {[enabled |-> enabled, context |-> context] :
        enabled \in {Unset, "false"}, context \in {Unset, "A", "SCSSecret"}}

FrameBodies == {None, "B"}

\* _load_environment: a deep copy of ENVIRONMENT_DEFAULTS, then the
\* override data is merged into the objects of the copy
load_environment_copy(heap, data) ==
    LET copied == deepcopy(heap, DefaultsObject)
        combined_env_ == copied.obj
        updated == IF data.context = Unset THEN copied.heap
                   ELSE [copied.heap EXCEPT
                            ![copied.heap[combined_env_].child].val =
                                data.context]
    IN  [heap |-> IF data.enabled = Unset THEN updated
                  ELSE [updated EXCEPT ![combined_env_].val = data.enabled],
         obj |-> combined_env_]

\* view_config_file from _load_environment on: the body of a POST is
\* merged into env['template']['context'] and the secrets of env are
\* serialized, both in place
view_environment(heap, data, body) ==
    LET loaded == load_environment_copy(heap, data)
        context == loaded.heap[loaded.obj].child
        posted == IF body = None THEN loaded.heap
                  ELSE [loaded.heap EXCEPT ![context].val = body]
        serialized == IF posted[context].val = "SCSSecret"
                      THEN [posted EXCEPT ![context].val = "value"]
                      ELSE posted
    IN  [heap |-> serialized, obj |-> loaded.obj]

\* The server after create_app() with ServerOptions
InitFrame ==
    /\ options = ServerOptions
    /\ startup = AuthInit(ServerOptions).status
    /\ global_whitelist = AuthInit(ServerOptions).global_whitelist
    /\ auth_mapping = AuthInit(ServerOptions).auth_mapping
    /\ defaults_heap = DefaultsHeap
    /\ frame_served = <<>>
    /\ RequestIdle
    /\ PatternIdle
    /\ EnvIdle
    /\ SecretsIdle
    /\ ViewIdle
    /\ FilesIdle
    /\ RefIdle
    /\ LimiterIdle
    /\ LoadIdle
    /\ HeapIdle

\* One request: check_auth and, for a request it lets through,
\* view_config_file; the objects of the request are released after it
ServeRequest ==
    /\ startup = "ok"
    /\ Len(frame_served) < MaxServed
    /\ \E ip \in ClientIps, headers \in AuthHeaders, path \in RequestPaths,
          data \in FrameFileData, body \in FrameBodies :
          LET r == check_auth(ip, headers, path)
              allowed == r.outcome = "Allowed"
              viewed == view_environment(defaults_heap, data, body)
          IN  /\ allowed \/ (data.enabled = Unset /\ data.context = Unset
                               /\ body = None)
              /\ current_window' = r.current_window
              /\ invalid_auth_attempts' = r.counts
              /\ defaults_heap' =
                    IF allowed
                    THEN SubSeq(viewed.heap, 1, Len(defaults_heap))
                    ELSE defaults_heap
              /\ frame_served' =
                    Append(frame_served,
                           [path |-> path, data |-> data, body |-> body,
                            outcome |-> r.outcome,
                            env |-> IF allowed
                                    THEN Contents(viewed.heap, viewed.obj)
                                    ELSE <<>>])
    /\ UNCHANGED <<authVars, now, requestVars, patternVars, envVars,
                   secretVars, viewVars, fileVars, refVars, limVars, loadVars,
                   heapVars>>

NextFrame == ServeRequest

SpecFrame == InitFrame /\ [][NextFrame]_vars

====
